---- MODULE Spec2Model ----
(***************************************************************************)
(* Model of the knm::synth synthesizer (knm_synthesizer.hpp): the MIDI     *)
(* channels, the voices with their volume envelope and sampler, the voice  *)
(* collection and the block-based render loop of Synthesizer.              *)
(*                                                                         *)
(* Conventions                                                             *)
(*  - Times are counted in samples of the synthesized signal: an envelope  *)
(*    duration of s seconds is the integer s * sampleRate.                 *)
(*  - Linear gains and envelope values are fixed-point numbers with        *)
(*    Scale = 1000 standing for 1.0, so NON_AUDIBLE (0.001) is 1.          *)
(*  - Array indices are 1-based: the C++ voice _voices[i] is voices[i+1],  *)
(*    the active prefix [0, _nb_active_voices) is 1..nb_active_voices.     *)
(*  - The audio samples themselves are symbolic: a frame of a block is     *)
(*    described by the voices mixed into the block (object, channel, key,  *)
(*    position of the sampler, gains) and the offset of the frame.         *)
(*  - The LFOs, the modulation envelope and the filter only change the     *)
(*    values of the audio samples of a track; the playback rate of the     *)
(*    sampler is one source sample per frame.                              *)
(***************************************************************************)
EXTENDS Integers, Sequences, FiniteSets, TLC

(***************************************************************************)
(* Bounds of the model                                                     *)
(***************************************************************************)
MaxPolyphony == 2
BlockSize == 4
SampleRate == 1000
MaxVoiceLength == 8
\* The number of blocks within which the voices that were ended are retired
DrainBlocks == 3
\* The width of the counter of rendered samples: stands for 2^32
CounterModulus == 4

(***************************************************************************)
(* Program constants                                                       *)
(***************************************************************************)
CHANNEL_COUNT == 16
PERCUSSION_CHANNEL == 9
NON_AUDIBLE == 1
Scale == 1000

ENV_STAGE_DELAY == 0
ENV_STAGE_ATTACK == 1
ENV_STAGE_HOLD == 2
ENV_STAGE_DECAY == 3
ENV_STAGE_RELEASE == 4

LOOP_MODE_NONE == 0
LOOP_MODE_CONTINUOUS == 1
LOOP_MODE_UNTIL_RELEASE == 3

VOICE_STATE_PLAYING == "Playing"
VOICE_STATE_RELEASE_REQUESTED == "ReleaseRequested"
VOICE_STATE_RELEASED == "Released"

(***************************************************************************)
(* Helper functions                                                        *)
(***************************************************************************)
Min(a, b) == IF a < b THEN a ELSE b
Max(a, b) == IF a > b THEN a ELSE b

clamp(value, min, max) ==
    IF value < min THEN min
    ELSE IF value > max THEN max
    ELSE value

RECURSIVE BitAnd(_, _)
BitAnd(a, b) ==
    IF a = 0 \/ b = 0 THEN 0
    ELSE (IF a % 2 = 1 /\ b % 2 = 1 THEN 1 ELSE 0) + 2 * BitAnd(a \div 2, b \div 2)

RECURSIVE BitOr(_, _)
BitOr(a, b) ==
    IF a = 0 THEN b
    ELSE IF b = 0 THEN a
    ELSE (IF a % 2 = 1 \/ b % 2 = 1 THEN 1 ELSE 0) + 2 * BitOr(a \div 2, b \div 2)

\* Conversions between the integer types of the fields
ToU8(x) == x % 256
ToU16(x) == x % 65536
ToI8(x) == LET u == x % 256 IN IF u >= 128 THEN u - 256 ELSE u
ToI16(x) == LET u == x % 65536 IN IF u >= 32768 THEN u - 65536 ELSE u

\* exp_cutoff(-9.226 * num / den): -9.226 is ln(0.0001), so the value is
\* 10^(-4 num/den); it is tabulated for num/den in steps of 1/8, and anything
\* below NON_AUDIBLE (num/den >= 3/4) is cut to 0.
ExpTable == <<1000, 316, 100, 31, 10, 3>>

exp_cutoff(num, den) ==
    IF den = 0 THEN 0
    ELSE LET k == (8 * num) \div den
         IN  IF k >= Len(ExpTable) THEN 0 ELSE ExpTable[k + 1]

(***************************************************************************)
(* Channel                                                                 *)
(***************************************************************************)
\* Channel::reset
ChannelReset(c) ==
    [c EXCEPT !.bank = IF c.percussion THEN 128 ELSE 0,
              !.preset = 0,
              !.modulation = 0,
              !.volume = 100 * 128,
              !.pan = 64 * 128,
              !.expression = 127 * 128,
              !.sustain = FALSE,
              !.reverb_send = 40,
              !.chorus_send = 0,
              !.rpn = -1,
              !.pitch_bend_range = 2 * 128,
              !.coarse_tune = 0,
              !.fine_tune = 8192,
              !.pitch_bend = 0]

\* Channel::Channel: the fields have no value before reset() assigns them
NewChannel(percussion) ==
    ChannelReset([percussion |-> percussion, bank |-> 0, preset |-> 0,
                  pitch_bend |-> 0, modulation |-> 0, volume |-> 0, pan |-> 0,
                  expression |-> 0, sustain |-> FALSE, reverb_send |-> 0,
                  chorus_send |-> 0, rpn |-> 0, pitch_bend_range |-> 0,
                  coarse_tune |-> 0, fine_tune |-> 0])

\* Faulty variant of resetControllers: the sustain switch is left as it is
ChannelResetControllersHeld(c) ==
    [c EXCEPT !.modulation = 0, !.expression = 127 * 128, !.rpn = -1, !.pitch_bend = 0]

\* Channel::resetControllers
ChannelResetControllers(c) ==
    [c EXCEPT !.modulation = 0,
              !.expression = 127 * 128,
              !.sustain = FALSE,
              !.rpn = -1,
              !.pitch_bend = 0]

\* (value << 7) | (field & 0x7F), stored in a 16 bits field
CoarseBits(field, value) == ToU16(BitOr(value * 128, BitAnd(ToU16(field), 127)))

\* Faulty variant of the fine setters: the upper bits of the field are dropped
FineBitsOnly(field, value) == value

\* (field & 0xFF80) | value, stored in a 16 bits field
FineBits(field, value) == ToU16(BitOr(BitAnd(ToU16(field), 65408), value))

setBank(c, value) == [c EXCEPT !.bank = ToU8(value + (IF c.percussion THEN 128 ELSE 0))]
setPreset(c, value) == [c EXCEPT !.preset = value]

\* _pitch_bend is kept in units of 1/8192
setPitchBend(c, value1, value2) ==
    [c EXCEPT !.pitch_bend = ToI16(BitOr(value1, value2 * 128)) - 8192]

setModulationCoarse(c, value) == [c EXCEPT !.modulation = CoarseBits(c.modulation, value)]
setModulationFine(c, value) == [c EXCEPT !.modulation = FineBits(c.modulation, value)]
setVolumeCoarse(c, value) == [c EXCEPT !.volume = CoarseBits(c.volume, value)]
setVolumeFine(c, value) == [c EXCEPT !.volume = FineBits(c.volume, value)]
setPanCoarse(c, value) == [c EXCEPT !.pan = CoarseBits(c.pan, value)]
setPanFine(c, value) == [c EXCEPT !.pan = FineBits(c.pan, value)]
setExpressionCoarse(c, value) == [c EXCEPT !.expression = CoarseBits(c.expression, value)]
setExpressionFine(c, value) == [c EXCEPT !.expression = FineBits(c.expression, value)]

setSustain(c, value) == [c EXCEPT !.sustain = (value >= 64)]
setReverbSend(c, value) == [c EXCEPT !.reverb_send = value]
setChorusSend(c, value) == [c EXCEPT !.chorus_send = value]

\* _rpn is a signed 16 bits field
setRPNCoarse(c, value) == [c EXCEPT !.rpn = ToI16(CoarseBits(c.rpn, value))]
setRPNFine(c, value) == [c EXCEPT !.rpn = ToI16(FineBits(c.rpn, value))]

setDataEntryCoarse(c, value) ==
    CASE c.rpn = 0 -> [c EXCEPT !.pitch_bend_range = CoarseBits(c.pitch_bend_range, value)]
      [] c.rpn = 1 -> [c EXCEPT !.fine_tune = CoarseBits(c.fine_tune, value)]
      [] c.rpn = 2 -> [c EXCEPT !.coarse_tune = ToI8(ToI8(value) - 64)]
      [] OTHER -> c

\* Faulty variant of setDataEntryFine: the fine message sets the coarse tune too
setDataEntryFineTune(c, value) ==
    CASE c.rpn = 0 -> [c EXCEPT !.pitch_bend_range = FineBits(c.pitch_bend_range, value)]
      [] c.rpn = 1 -> [c EXCEPT !.fine_tune = FineBits(c.fine_tune, value)]
      [] c.rpn = 2 -> [c EXCEPT !.coarse_tune = ToI8(ToI8(value) - 64)]
      [] OTHER -> c

setDataEntryFine(c, value) ==
    CASE c.rpn = 0 -> [c EXCEPT !.pitch_bend_range = FineBits(c.pitch_bend_range, value)]
      [] c.rpn = 1 -> [c EXCEPT !.fine_tune = FineBits(c.fine_tune, value)]
      [] OTHER -> c

\* Channel::pan, in hundredths: (100 / 16383) * _pan - 50
ChannelPan(c) == ((10000 * c.pan) \div 16383) - 5000

\* decibels_to_linear(Channel::volume()) * Channel::expression():
\* (_volume / 16383)^2 * (_expression / 16383)
ChannelGain(c) ==
    LET v == (Scale * c.volume) \div 16383
        v2 == (v * c.volume) \div 16383
    IN  (v2 * c.expression) \div 16383

(***************************************************************************)
(* Sampler.  _current_index is a fixed-point number of IndexScale units    *)
(* per source sample; a pitch ratio is given in the same unit.             *)
(***************************************************************************)
IndexScale == 4

\* Sampler::Sampler
NewSampler(sample_rate) ==
    [dest_sample_rate |-> ToU16(sample_rate), start |-> 0, end |-> 0,
     loop_mode |-> LOOP_MODE_NONE, loop_start |-> 0, loop_end |-> 0,
     looping |-> FALSE, current_index |-> 0]

\* Faulty variant of start: the playback begins one sample before the sample
SamplerStartEarly(s, start, end, loop_mode, loop_start, loop_end) ==
    [s EXCEPT !.start = start, !.end = end, !.loop_mode = loop_mode,
              !.loop_start = loop_start, !.loop_end = loop_end,
              !.looping = (loop_mode # LOOP_MODE_NONE),
              !.current_index = (start - 1) * IndexScale]

\* Sampler::start
SamplerStart(s, start, end, loop_mode, loop_start, loop_end) ==
    [s EXCEPT !.start = start, !.end = end, !.loop_mode = loop_mode,
              !.loop_start = loop_start, !.loop_end = loop_end,
              !.looping = (loop_mode # LOOP_MODE_NONE),
              !.current_index = start * IndexScale]

\* Sampler::release
SamplerRelease(s) ==
    IF s.loop_mode = LOOP_MODE_UNTIL_RELEASE THEN [s EXCEPT !.looping = FALSE] ELSE s

\* The loop of Sampler::process from output sample i on: the result is the
\* sampler and the value returned by process()
RECURSIVE SamplerLoop(_, _, _, _)
SamplerLoop(s, i, size, pitch_ratio) ==
    IF i >= size THEN [sampler |-> s, ok |-> TRUE]
    ELSE LET index == s.current_index \div IndexScale
         IN  IF ~s.looping /\ index >= s.end
             THEN [sampler |-> s, ok |-> (i # 0)]
             ELSE LET advanced == s.current_index + pitch_ratio
                      wrapped == IF s.looping /\ advanced >= s.loop_end * IndexScale
                                 THEN advanced - (s.loop_end - s.loop_start) * IndexScale
                                 ELSE advanced
                  IN  SamplerLoop([s EXCEPT !.current_index = wrapped], i + 1, size, pitch_ratio)

\* Sampler::process
SamplerProcess(s, size, pitch_ratio) == SamplerLoop(s, 0, size, pitch_ratio)

(***************************************************************************)
(* VolumeEnvelope.  The durations are given in samples at the sample rate  *)
(* of the settings; the envelope divides its sample counter by its own     *)
(* sample_rate field, so "current_time < end" is                           *)
(* nb_processed_samples * SampleRate < end * sample_rate.                  *)
(* release_start_time is kept as the value of the sample counter.          *)
(***************************************************************************)
\* VolumeEnvelope::VolumeEnvelope
NewVolumeEnvelope(sample_rate) ==
    [sample_rate |-> ToU16(sample_rate), attack |-> 0, decay |-> 0, release |-> 0,
     attack_start_time |-> 0, hold_start_time |-> 0, decay_start_time |-> 0,
     release_start_time |-> 0, sustain_level |-> 0, release_level |-> 0,
     nb_processed_samples |-> 0, stage |-> ENV_STAGE_DELAY, value |-> 0,
     priority |-> 0]

\* current_time < end
EnvBefore(e, end) ==
    /\ e.sample_rate # 0
    /\ e.nb_processed_samples * SampleRate < end * e.sample_rate

\* (current_time - from) / duration as the fraction [num, den]
EnvRatio(e, from, duration) ==
    [num |-> e.nb_processed_samples * SampleRate - from * e.sample_rate,
     den |-> duration * e.sample_rate]

\* Faulty variant of the change of stage: every call of process moves to the
\* next stage, the first one following the last one
EnvAdvanceStageRound(e) ==
    [e EXCEPT !.stage = IF e.stage = ENV_STAGE_RELEASE THEN ENV_STAGE_DELAY ELSE e.stage + 1]

\* "Change stage if necessary" loop of VolumeEnvelope::process
RECURSIVE EnvAdvanceStage(_)
EnvAdvanceStage(e) ==
    IF e.stage > ENV_STAGE_HOLD THEN e
    ELSE LET end == CASE e.stage = ENV_STAGE_DELAY -> e.attack_start_time
                      [] e.stage = ENV_STAGE_ATTACK -> e.hold_start_time
                      [] OTHER -> e.decay_start_time
         IN  IF EnvBefore(e, end) THEN e
             ELSE EnvAdvanceStage([e EXCEPT !.stage = e.stage + 1])

\* VolumeEnvelope::process from "Update the value" on, e being the envelope
\* with its stage changed
EnvUpdateValue(e) ==
    CASE e.stage = ENV_STAGE_DELAY ->
           [e EXCEPT !.value = 0, !.priority = 3 * Scale]
      [] e.stage = ENV_STAGE_ATTACK ->
           LET r == EnvRatio(e, e.attack_start_time, e.attack)
               v == IF r.den = 0 THEN 0 ELSE (Scale * r.num) \div r.den
           IN  [e EXCEPT !.value = v, !.priority = 3 * Scale - v]
      [] e.stage = ENV_STAGE_HOLD ->
           [e EXCEPT !.value = Scale, !.priority = 2 * Scale]
      [] e.stage = ENV_STAGE_DECAY ->
           LET r == EnvRatio(e, e.decay_start_time, e.decay)
               v == Max(exp_cutoff(r.num, r.den), e.sustain_level)
           IN  [e EXCEPT !.value = v, !.priority = Scale + v]
      [] OTHER ->
           LET r == [num |-> (e.nb_processed_samples - e.release_start_time) * SampleRate,
                     den |-> e.release * e.sample_rate]
               v == (e.release_level * exp_cutoff(r.num, r.den)) \div Scale
           IN  [e EXCEPT !.value = v, !.priority = v]

\* VolumeEnvelope::process: the envelope after the call
VolumeEnvelopeProcess(env, nb_samples) ==
    EnvUpdateValue(EnvAdvanceStage(
        [env EXCEPT !.nb_processed_samples = env.nb_processed_samples + nb_samples]))

\* VolumeEnvelope::process: the value returned, given the envelope after the call
VolumeEnvelopeAudible(e) ==
    IF e.stage <= ENV_STAGE_HOLD THEN TRUE ELSE e.value > NON_AUDIBLE

\* VolumeEnvelope::start
VolumeEnvelopeStart(env, delay, attack, hold, decay, sustain, release) ==
    VolumeEnvelopeProcess(
        [env EXCEPT !.attack = attack, !.decay = decay, !.release = release,
                    !.attack_start_time = delay,
                    !.hold_start_time = delay + attack,
                    !.decay_start_time = delay + attack + hold,
                    !.release_start_time = 0,
                    !.sustain_level = clamp(sustain, 0, Scale),
                    !.release_level = 0,
                    !.nb_processed_samples = 0,
                    !.stage = ENV_STAGE_DELAY,
                    !.value = 0], 0)

\* VolumeEnvelope::release
VolumeEnvelopeRelease(e) ==
    [e EXCEPT !.stage = ENV_STAGE_RELEASE,
              !.release_start_time = e.nb_processed_samples,
              !.release_level = e.value]

(***************************************************************************)
(* ModulationEnvelope.  The durations are given as for VolumeEnvelope;     *)
(* release_end_time is kept in units of 1 / (SampleRate * sample_rate)     *)
(* seconds, in which the sample counter n stands at n * SampleRate and a   *)
(* duration d lasts d * sample_rate.                                       *)
(***************************************************************************)
\* ModulationEnvelope::ModulationEnvelope
NewModulationEnvelope(sample_rate) ==
    [sample_rate |-> ToU16(sample_rate), attack |-> 0, decay |-> 0, release |-> 0,
     attack_start_time |-> 0, hold_start_time |-> 0, decay_start_time |-> 0,
     decay_end_time |-> 0, release_end_time |-> 0, sustain_level |-> 0,
     release_level |-> 0, nb_processed_samples |-> 0, stage |-> ENV_STAGE_DELAY,
     value |-> 0]

\* ModulationEnvelope::process from "Compute the envelope value" on, e being
\* the envelope with its stage changed.  A slope of a null duration is
\* infinite: fmax keeps the other operand when the product is not a number or
\* is negative.
ModUpdateValue(e) ==
    CASE e.stage = ENV_STAGE_DELAY -> [e EXCEPT !.value = 0]
      [] e.stage = ENV_STAGE_ATTACK ->
           LET r == EnvRatio(e, e.attack_start_time, e.attack)
           IN  [e EXCEPT !.value = IF r.den = 0 THEN 0 ELSE (Scale * r.num) \div r.den]
      [] e.stage = ENV_STAGE_HOLD -> [e EXCEPT !.value = Scale]
      [] e.stage = ENV_STAGE_DECAY ->
           LET num == e.decay_end_time * e.sample_rate - e.nb_processed_samples * SampleRate
               den == e.decay * e.sample_rate
           IN  [e EXCEPT !.value = IF den = 0 \/ num < 0 THEN e.sustain_level
                                   ELSE Max((Scale * num) \div den, e.sustain_level)]
      [] OTHER ->
           LET num == e.release_end_time - e.nb_processed_samples * SampleRate
               den == e.release * e.sample_rate
           IN  [e EXCEPT !.value = IF den = 0 \/ num < 0 THEN 0
                                   ELSE (e.release_level * num) \div den]

\* ModulationEnvelope::process: the envelope after the call
ModulationEnvelopeProcess(env, nb_samples) ==
    ModUpdateValue(EnvAdvanceStage(
        [env EXCEPT !.nb_processed_samples = env.nb_processed_samples + nb_samples]))

\* ModulationEnvelope::process: the value returned, given the envelope after
\* the call
ModulationEnvelopeAudible(e) ==
    IF e.stage <= ENV_STAGE_HOLD THEN TRUE ELSE e.value > NON_AUDIBLE

\* ModulationEnvelope::start
ModulationEnvelopeStart(env, delay, attack, hold, decay, sustain, release) ==
    ModulationEnvelopeProcess(
        [env EXCEPT !.attack = attack, !.decay = decay, !.release = release,
                    !.attack_start_time = delay,
                    !.hold_start_time = delay + attack,
                    !.decay_start_time = delay + attack + hold,
                    !.decay_end_time = delay + attack + hold + decay,
                    !.release_end_time = release * env.sample_rate,
                    !.sustain_level = clamp(sustain, 0, Scale),
                    !.release_level = 0,
                    !.nb_processed_samples = 0,
                    !.stage = ENV_STAGE_DELAY,
                    !.value = 0], 0)

\* ModulationEnvelope::release
ModulationEnvelopeRelease(e) ==
    [e EXCEPT !.stage = ENV_STAGE_RELEASE,
              !.release_end_time = @ + e.nb_processed_samples * SampleRate,
              !.release_level = e.value]

(***************************************************************************)
(* SoundFont (knm::sf): the presets of the loaded file and the lookup of   *)
(* the samples of a key.  A sample_info_t is given by the values that      *)
(* Voice::start derives from its generators and its sample.                *)
(***************************************************************************)
\* sample_info_t without sample (sample == nullptr, no generator)
NullSampleInfo ==
    [sample |-> FALSE, exclusive_class |-> 0, attenuation |-> Scale, pan |-> 0,
     delay |-> 1, attack |-> 1, hold |-> 1, decay |-> 1, sustain |-> Scale,
     release |-> 20, start |-> 0, end |-> 0, loop_start |-> 0, loop_end |-> 0,
     loop_mode |-> LOOP_MODE_NONE]

\* key_info_t as default-constructed
NullKeyInfo == [stereo |-> FALSE, left |-> NullSampleInfo, right |-> NullSampleInfo]

\* A looping sample with a sustained envelope
LoopSampleInfo(pan) ==
    [sample |-> TRUE, exclusive_class |-> 0, attenuation |-> Scale, pan |-> pan,
     delay |-> 0, attack |-> 0, hold |-> 0, decay |-> 4, sustain |-> 500,
     release |-> 4, start |-> 0, end |-> 8, loop_start |-> 2, loop_end |-> 6,
     loop_mode |-> LOOP_MODE_CONTINUOUS]

\* A short sample played once, in an exclusive class
ShotSampleInfo(class, pan) ==
    [sample |-> TRUE, exclusive_class |-> class, attenuation |-> 500, pan |-> pan,
     delay |-> 0, attack |-> 4, hold |-> 4, decay |-> 4, sustain |-> Scale,
     release |-> 4, start |-> 8, end |-> 8 + 2 * BlockSize, loop_start |-> 8,
     loop_end |-> 8, loop_mode |-> LOOP_MODE_NONE]

\* A sample of that number of blocks played once, with a sustained envelope
PairSampleInfo(blocks, pan) ==
    [sample |-> TRUE, exclusive_class |-> 0, attenuation |-> Scale, pan |-> pan,
     delay |-> 0, attack |-> 0, hold |-> 0, decay |-> 4, sustain |-> Scale,
     release |-> 4, start |-> 0, end |-> blocks * BlockSize, loop_start |-> 0,
     loop_end |-> 0, loop_mode |-> LOOP_MODE_NONE]

\* The presets of the SoundFont file, by (bank, number); the samples of the
\* stereo pair of (0, 2) are not of the same length
PresetTable ==
    (<<0, 0>> :> [stereo |-> TRUE, left |-> LoopSampleInfo(-5000), right |-> LoopSampleInfo(5000)])
    @@ (<<0, 1>> :> [stereo |-> FALSE, left |-> ShotSampleInfo(1, 0), right |-> NullSampleInfo])
    @@ (<<0, 2>> :> [stereo |-> TRUE, left |-> PairSampleInfo(1, -2500),
                                      right |-> PairSampleInfo(3, 2500)])
    @@ (<<128, 0>> :> [stereo |-> TRUE, left |-> ShotSampleInfo(1, -2500),
                                        right |-> ShotSampleInfo(1, 2500)])

\* SoundFont::getPreset: is the preset in the file
getPreset(sf, bank, number) == <<bank, number>> \in sf

\* SoundFont::getKeyInfo: found, and the key_info_t written when found
getKeyInfo(sf, bank, number, key, velocity, key_info) ==
    IF getPreset(sf, bank, number)
    THEN [found |-> TRUE, key_info |-> PresetTable[<<bank, number>>]]
    ELSE [found |-> FALSE, key_info |-> key_info]

(***************************************************************************)
(* Voice                                                                   *)
(***************************************************************************)
\* Voice::track_t::track_t
NewTrack ==
    [volume_envelope |-> NewVolumeEnvelope(SampleRate),
     sampler |-> NewSampler(SampleRate),
     note_gain |-> 0, instrument_pan |-> 0, block |-> <<>>,
     previous_mix_gain |-> 0, current_mix_gain |-> 0]

\* Voice::Voice; id stands for the address of the object.  nb_processed is
\* the history of the voice: the number of calls of process that returned
\* true since the last call of start.
NewVoice(id) ==
    [id |-> id, stereo |-> FALSE, left |-> NewTrack, right |-> NewTrack,
     exclusive_class |-> 0, channel |-> 0, key |-> 0, velocity |-> 0,
     voice_state |-> VOICE_STATE_PLAYING, voice_length |-> 0, nb_processed |-> 0]

\* Voice::start(sample_info, buffer, track)
\* note_gain = 10^((-20 log10(127 / velocity) - attenuations) / 20)
TrackStart(track, sample_info, velocity) ==
    [track EXCEPT
        !.note_gain = IF velocity > 0 THEN (velocity * sample_info.attenuation) \div 127 ELSE 0,
        !.instrument_pan = clamp(sample_info.pan, -5000, 5000),
        !.volume_envelope = VolumeEnvelopeStart(@, sample_info.delay, sample_info.attack,
                                sample_info.hold, sample_info.decay, sample_info.sustain,
                                Max(sample_info.release, SampleRate \div 100)),
        !.sampler = SamplerStart(@, sample_info.start, sample_info.end, sample_info.loop_mode,
                                 sample_info.loop_start, sample_info.loop_end)]

\* Voice::start(key_info, buffer, channel, key, velocity)
VoiceStart(v, key_info, channel, key, velocity) ==
    [v EXCEPT !.stereo = key_info.stereo,
              !.exclusive_class = ToU8(key_info.left.exclusive_class),
              !.channel = channel,
              !.key = key,
              !.velocity = velocity,
              !.left = TrackStart(@, key_info.left, velocity),
              !.right = IF key_info.stereo THEN TrackStart(@, key_info.right, velocity) ELSE @,
              !.voice_state = VOICE_STATE_PLAYING,
              !.voice_length = 0,
              !.nb_processed = 0]

\* Faulty variant of end: a released voice is ended again
VoiceEndAgain(v) == [v EXCEPT !.voice_state = VOICE_STATE_RELEASE_REQUESTED]

\* Voice::end
VoiceEnd(v) ==
    IF v.voice_state = VOICE_STATE_PLAYING
    THEN [v EXCEPT !.voice_state = VOICE_STATE_RELEASE_REQUESTED]
    ELSE v

\* Faulty variant of kill: the track of the right sample keeps its gain
VoiceKillLeft(v) == [v EXCEPT !.left.note_gain = 0]

\* Voice::kill
VoiceKill(v) == [v EXCEPT !.left.note_gain = 0, !.right.note_gain = 0]

\* Faulty variant of priority: a killed voice keeps the priority of its envelope
VoicePriorityKilled(v) ==
    IF v.stereo
    THEN Max(v.left.volume_envelope.priority, v.right.volume_envelope.priority)
    ELSE v.left.volume_envelope.priority

\* Voice::priority
VoicePriority(v) ==
    IF v.stereo
    THEN IF v.left.note_gain < NON_AUDIBLE /\ v.right.note_gain < NON_AUDIBLE
         THEN 0
         ELSE Max(v.left.volume_envelope.priority, v.right.volume_envelope.priority)
    ELSE IF v.left.note_gain < NON_AUDIBLE
         THEN 0
         ELSE v.left.volume_envelope.priority

\* cos((pi / 2) * pan / 50) for a pan in hundredths, approximated by
\* 1 - (pan / 50)^2
PanCos(pan) == Scale - (Scale * ((pan * pan) \div 2500)) \div 10000

\* factor = 1 + (sqrt(2) - 1) * cos(angle)
PanFactor(pan) == Scale + (414 * PanCos(pan)) \div Scale

\* gain * (50 -/+ pan) / 100 * factor
PanGain(gain, side, factor) == (((gain * side) \div 10000) * factor) \div Scale

\* Voice::process(channel_info, track) after the sampler was processed: t1 is
\* the track with its envelope processed, r the result of Sampler::process
TrackMix(track, channel_info, t1, r) ==
    IF ~r.ok THEN [track |-> [t1 EXCEPT !.sampler = r.sampler], ok |-> FALSE]
    ELSE [track |-> [t1 EXCEPT !.sampler = r.sampler,
                               !.block = <<t1.sampler.current_index>>,
                               !.current_mix_gain =
                                   (((track.note_gain * ChannelGain(channel_info)) \div Scale)
                                        * t1.volume_envelope.value) \div Scale],
          ok |-> TRUE]

\* Voice::process(channel_info, track) after the envelope was processed
TrackSample(track, channel_info, t1) ==
    IF ~VolumeEnvelopeAudible(t1.volume_envelope) THEN [track |-> t1, ok |-> FALSE]
    ELSE TrackMix(track, channel_info, t1, SamplerProcess(t1.sampler, BlockSize, IndexScale))

\* Voice::process(channel_info, track): the track and the value returned
TrackProcess(v, channel_info, track) ==
    TrackSample(track, channel_info,
                [track EXCEPT !.volume_envelope = VolumeEnvelopeProcess(@, BlockSize)])

\* Voice::process, the test of success of the tracks: l and r are the results
\* of the left and the right track
TracksResult(v1, l, r) ==
    IF v1.stereo
    THEN [voice |-> [v1 EXCEPT !.left = l.track, !.right = r.track],
          ok |-> (r.ok \/ l.ok)]
    ELSE [voice |-> [v1 EXCEPT !.left = l.track], ok |-> l.ok]

\* Voice::process, the tracks of the voice v1 whose mix gains were shifted
TracksProcess(v1, channel_info) ==
    TracksResult(v1, TrackProcess(v1, channel_info, v1.left),
                     TrackProcess(v1, channel_info, v1.right))

\* Voice::process, from the shift of the mix gains to the test of success
VoiceProcessTracks(v, channel_info) ==
    TracksProcess([v EXCEPT !.left.previous_mix_gain = v.left.current_mix_gain,
                            !.right.previous_mix_gain = v.right.current_mix_gain],
                  channel_info)

\* Voice::process, the split of the gains by the pan
VoicePan(v, channel_info) ==
    IF ~v.stereo
    THEN LET pan == ChannelPan(channel_info) + v.left.instrument_pan
             gain == v.left.current_mix_gain
         IN  IF pan > -5000 /\ pan < 5000
             THEN [v EXCEPT !.left.current_mix_gain = PanGain(gain, 5000 - pan, PanFactor(pan)),
                            !.right.current_mix_gain = PanGain(gain, 5000 + pan, PanFactor(pan))]
             ELSE v
    ELSE LET panl == ChannelPan(channel_info) + v.left.instrument_pan
             panr == ChannelPan(channel_info) + v.right.instrument_pan
             vl == IF panl > -5000 /\ panl < 5000
                   THEN [v EXCEPT !.left.current_mix_gain =
                                      PanGain(@, 5000 - panl, PanFactor(panl))]
                   ELSE v
         IN  IF panr > -5000 /\ panr < 5000
             THEN [vl EXCEPT !.right.current_mix_gain =
                                 PanGain(@, 5000 - panr, PanFactor(panr))]
             ELSE vl

\* Voice::process, the release of the envelopes and of the sampler of a track
TrackRelease(track) ==
    [track EXCEPT !.volume_envelope = VolumeEnvelopeRelease(@),
                  !.sampler = SamplerRelease(@)]

\* Faulty variant of VoiceRelease: the sustain switch of the channel is not read
VoiceReleaseUnheld(v, channel_info) ==
    IF /\ v.voice_length >= SampleRate \div 500
       /\ v.voice_state = VOICE_STATE_RELEASE_REQUESTED
    THEN [v EXCEPT !.left = TrackRelease(@),
                   !.right = IF v.stereo THEN TrackRelease(@) ELSE @,
                   !.voice_state = VOICE_STATE_RELEASED]
    ELSE v

\* Voice::process, the release of a voice whose note was ended
VoiceRelease(v, channel_info) ==
    IF /\ v.voice_length >= SampleRate \div 500
       /\ v.voice_state = VOICE_STATE_RELEASE_REQUESTED
       /\ ~channel_info.sustain
    THEN [v EXCEPT !.left = TrackRelease(@),
                   !.right = IF v.stereo THEN TrackRelease(@) ELSE @,
                   !.voice_state = VOICE_STATE_RELEASED]
    ELSE v

\* Faulty variant of VoiceAdvance: the first block of a voice is not counted
\* in its length
VoiceAdvanceLate(v2) ==
    [voice |-> IF v2.voice_length = 0 /\ v2.nb_processed = 0
               THEN [v2 EXCEPT !.left.previous_mix_gain = v2.left.current_mix_gain,
                               !.right.previous_mix_gain = v2.right.current_mix_gain,
                               !.nb_processed = @ + 1]
               ELSE [v2 EXCEPT !.voice_length = @ + BlockSize, !.nb_processed = @ + 1],
     ok |-> TRUE]

\* Voice::process, the end: v2 is the voice with its gains split by the pan
VoiceAdvance(v2) ==
    [voice |-> [(IF v2.voice_length = 0
                 THEN [v2 EXCEPT !.left.previous_mix_gain = v2.left.current_mix_gain,
                                 !.right.previous_mix_gain = v2.right.current_mix_gain]
                 ELSE v2) EXCEPT !.voice_length = @ + BlockSize, !.nb_processed = @ + 1],
     ok |-> TRUE]

\* Faulty variant of VoiceProcessed: a voice whose tracks have ended is kept
VoiceProcessedKept(p, channel_info) == VoiceAdvance(VoicePan(p.voice, channel_info))

\* Voice::process after the tracks were processed with the result p
VoiceProcessed(p, channel_info) ==
    IF ~p.ok THEN [voice |-> p.voice, ok |-> FALSE]
    ELSE VoiceAdvance(VoicePan(p.voice, channel_info))

\* Voice::process: the voice and the value returned
VoiceProcess(v, chans) ==
    IF v.left.note_gain < NON_AUDIBLE /\ (~v.stereo \/ v.right.note_gain < NON_AUDIBLE)
    THEN [voice |-> v, ok |-> FALSE]
    ELSE VoiceProcessed(VoiceProcessTracks(VoiceRelease(v, chans[v.channel]),
                                           chans[v.channel]),
                        chans[v.channel])

(***************************************************************************)
(* VoiceCollection                                                         *)
(***************************************************************************)
\* Faulty variant of FindExclusive: the voices of the class are not searched
FindExclusiveNone(vs, nb, i, channel, exclusive_class) == 0

\* The search of VoiceCollection::request for a voice of the exclusive class:
\* the index of the first one in the active prefix, 0 when there is none
RECURSIVE FindExclusive(_, _, _, _, _)
FindExclusive(vs, nb, i, channel, exclusive_class) ==
    IF i > nb THEN 0
    ELSE IF vs[i].exclusive_class = exclusive_class /\ vs[i].channel = channel THEN i
    ELSE FindExclusive(vs, nb, i + 1, channel, exclusive_class)

\* Faulty variant of FindLowest: the priorities are compared with 0, so that
\* no candidate is found
FindLowestNone(vs, i, candidate, lowest_priority) == 0

\* Faulty variant of FindLowest: of the voices of the same priority, the first
\* one is kept
RECURSIVE FindLowestFirst(_, _, _, _)
FindLowestFirst(vs, i, candidate, lowest_priority) ==
    IF i > Len(vs) THEN candidate
    ELSE IF VoicePriority(vs[i]) < lowest_priority
    THEN FindLowestFirst(vs, i + 1, i, VoicePriority(vs[i]))
    ELSE FindLowestFirst(vs, i + 1, candidate, lowest_priority)

\* The search of VoiceCollection::request for the voice of lowest priority;
\* candidate 0 is nullptr
RECURSIVE FindLowest(_, _, _, _)
FindLowest(vs, i, candidate, lowest_priority) ==
    IF i > Len(vs) THEN candidate
    ELSE LET priority == VoicePriority(vs[i])
         IN  IF priority < lowest_priority
             THEN FindLowest(vs, i + 1, i, priority)
             ELSE IF priority = lowest_priority /\ candidate # 0
                     /\ vs[i].voice_length > vs[candidate].voice_length
             THEN FindLowest(vs, i + 1, i, lowest_priority)
             ELSE FindLowest(vs, i + 1, candidate, lowest_priority)

\* Faulty variant of request: the voices are counted again when a voice is
\* reused or evicted
requestRecount(vs, nb, channel, exclusive_class) ==
    LET found == IF exclusive_class # 0
                 THEN FindExclusive(vs, nb, 1, channel, exclusive_class)
                 ELSE 0
    IN  IF found # 0 THEN [index |-> found, nb_active_voices |-> nb + 1]
        ELSE IF nb < Len(vs) THEN [index |-> nb + 1, nb_active_voices |-> nb + 1]
        ELSE [index |-> FindLowest(vs, 1, 0, 1000000 * Scale), nb_active_voices |-> nb + 1]

\* VoiceCollection::request: the index of the voice returned (0 for nullptr)
\* and the number of active voices after the call
request(vs, nb, channel, exclusive_class) ==
    LET found == IF exclusive_class # 0
                 THEN FindExclusive(vs, nb, 1, channel, exclusive_class)
                 ELSE 0
    IN  IF found # 0 THEN [index |-> found, nb_active_voices |-> nb]
        ELSE IF nb < Len(vs) THEN [index |-> nb + 1, nb_active_voices |-> nb + 1]
        ELSE [index |-> FindLowest(vs, 1, 0, 1000000 * Scale), nb_active_voices |-> nb]

\* The loop of VoiceCollection::process from index i on; ProcessStep is its
\* body, r being the result of Voice::process for the voice i
RECURSIVE ProcessLoop(_, _, _, _)
RECURSIVE ProcessStep(_, _, _, _, _)

\* Faulty variant of ProcessStep: the index advances after a removal too, so
\* that the voice moved to the index is not processed
ProcessStepSkip(vs, nb, i, chans, r) ==
    IF r.ok
    THEN ProcessLoop([vs EXCEPT ![i] = r.voice], nb, i + 1, chans)
    ELSE ProcessLoop([vs EXCEPT ![i] = vs[nb], ![nb] = r.voice], nb - 1,
                     IF i < nb THEN i + 1 ELSE i, chans)

ProcessStep(vs, nb, i, chans, r) ==
    IF r.ok
    THEN ProcessLoop([vs EXCEPT ![i] = r.voice], nb, i + 1, chans)
    ELSE ProcessLoop([vs EXCEPT ![i] = vs[nb], ![nb] = r.voice], nb - 1, i, chans)

ProcessLoop(vs, nb, i, chans) ==
    IF i = nb + 1 THEN [voices |-> vs, nb_active_voices |-> nb]
    ELSE ProcessStep(vs, nb, i, chans, VoiceProcess(vs[i], chans))

\* VoiceCollection::process
CollectionProcess(vs, nb, chans) == ProcessLoop(vs, nb, 1, chans)

(***************************************************************************)
(* Synthesizer.  The object is the record s:                               *)
(*   soundfont             the presets of _soundfont (empty: nothing loaded)*)
(*   default_preset        _default_preset                                 *)
(*   channels              _channels, indexed by 0..15                     *)
(*   voices                _voices->_voices                                *)
(*   nb_active_voices      _voices->_nb_active_voices                      *)
(*   block_left, block_right  the mix of the last block synthesized        *)
(*   blocks_offset, nb_rendered_samples, master_volume                     *)
(***************************************************************************)
\* Synthesizer::Synthesizer
NewSynthesizer ==
    [soundfont |-> {},
     default_preset |-> <<0, 0>>,
     channels |-> [c \in 0..(CHANNEL_COUNT - 1) |-> NewChannel(c = PERCUSSION_CHANNEL)],
     voices |-> [i \in 1..MaxPolyphony |-> NewVoice(i)],
     nb_active_voices |-> 0,
     block_left |-> <<>>,
     block_right |-> <<>>,
     blocks_offset |-> BlockSize,
     nb_rendered_samples |-> 0,
     master_volume |-> Scale]

\* The first key of the map of presets
FirstPreset(sf) ==
    CHOOSE p \in sf : \A q \in sf : p[1] < q[1] \/ (p[1] = q[1] /\ p[2] <= q[2])

\* Synthesizer::loadSoundFont: SoundFont::load empties the object, then fills
\* it when the file is valid
loadSoundFont(s, valid) ==
    IF valid
    THEN [s EXCEPT !.soundfont = DOMAIN PresetTable,
                   !.default_preset = FirstPreset(DOMAIN PresetTable)]
    ELSE [s EXCEPT !.soundfont = {}]

\* Faulty variant of noteOff: the channel of the voices is not compared
noteOffAnyChannel(s, channel, key) ==
    IF channel >= CHANNEL_COUNT THEN s
    ELSE [s EXCEPT !.voices =
             [i \in DOMAIN s.voices |->
                 IF i <= s.nb_active_voices /\ s.voices[i].key = key
                 THEN [s.voices[i] EXCEPT !.voice_state = VOICE_STATE_RELEASE_REQUESTED]
                 ELSE s.voices[i]]]

\* Synthesizer::noteOff
noteOff(s, channel, key) ==
    IF channel >= CHANNEL_COUNT THEN s
    ELSE [s EXCEPT !.voices =
             [i \in DOMAIN s.voices |->
                 IF i <= s.nb_active_voices /\ s.voices[i].channel = channel
                                            /\ s.voices[i].key = key
                 THEN VoiceEnd(s.voices[i])
                 ELSE s.voices[i]]]

\* The three lookups of Synthesizer::noteOn
NoteOnKeyInfo(s, channel, key, velocity) ==
    LET channel_info == s.channels[channel]
        first == getKeyInfo(s.soundfont, channel_info.bank, channel_info.preset,
                            key, velocity, NullKeyInfo)
        bank2 == IF channel_info.bank < 128 THEN 0 ELSE 128
        number2 == IF channel_info.bank < 128 THEN channel_info.preset ELSE 0
        second == getKeyInfo(s.soundfont, bank2, number2, key, velocity, first.key_info)
        third == getKeyInfo(s.soundfont, s.default_preset[1], s.default_preset[2],
                            key, velocity, second.key_info)
    IN  IF first.found THEN first.key_info
        ELSE IF second.found THEN second.key_info
        ELSE third.key_info

\* Does one of the three lookups of Synthesizer::noteOn succeed
NoteOnFound(s, channel) ==
    \/ getPreset(s.soundfont, s.channels[channel].bank, s.channels[channel].preset)
    \/ getPreset(s.soundfont, IF s.channels[channel].bank < 128 THEN 0 ELSE 128,
                 IF s.channels[channel].bank < 128 THEN s.channels[channel].preset ELSE 0)
    \/ getPreset(s.soundfont, s.default_preset[1], s.default_preset[2])

\* Voice::start with a key_info_t whose sample is nullptr, up to the read of
\* sample_info.sample->start that precedes Sampler::start
VoiceStartNull(v, key_info, channel, key, velocity) ==
    LET started == VoiceStart(v, key_info, channel, key, velocity)
    IN  [started EXCEPT !.left.sampler = v.left.sampler,
                        !.voice_state = v.voice_state,
                        !.voice_length = v.voice_length,
                        !.nb_processed = v.nb_processed]

\* What the read through the null pointer of Voice::start can yield for the
\* bounds of the sample, when the program survives it
NullSampleEnds == {0, BlockSize}

\* Synthesizer::noteOn: the possible outcomes [s, crashed, started], started
\* being the index of the voice given to Voice::start (0: none)
noteOn(s, channel, key, velocity) ==
    IF velocity = 0
    THEN {[s |-> noteOff(s, channel, key), crashed |-> FALSE, started |-> 0]}
    ELSE IF channel >= CHANNEL_COUNT
    THEN {[s |-> s, crashed |-> FALSE, started |-> 0]}
    ELSE LET key_info == NoteOnKeyInfo(s, channel, key, velocity)
             r == request(s.voices, s.nb_active_voices, channel,
                          ToU8(key_info.left.exclusive_class))
             s1 == [s EXCEPT !.nb_active_voices = r.nb_active_voices]
         IN  IF r.index = 0
             THEN {[s |-> s1, crashed |-> TRUE, started |-> 0]}
             ELSE IF key_info.left.sample
             THEN {[s |-> [s1 EXCEPT !.voices[r.index] =
                                  VoiceStart(@, key_info, channel, key, velocity)],
                    crashed |-> FALSE, started |-> r.index]}
             ELSE {[s |-> [s1 EXCEPT !.voices[r.index] =
                                  VoiceStartNull(@, key_info, channel, key, velocity)],
                    crashed |-> TRUE, started |-> r.index]}
                  \cup
                  {[s |-> [s1 EXCEPT !.voices[r.index] =
                                  VoiceStart(@, [key_info EXCEPT !.left.end = e],
                                             channel, key, velocity)],
                    crashed |-> FALSE, started |-> r.index] : e \in NullSampleEnds}

\* Faulty variant of allNotesOff: the voices are ended even when immediate
allNotesOffEnded(s, immediate) ==
    [s EXCEPT !.voices =
        [i \in DOMAIN s.voices |->
            IF i <= s.nb_active_voices THEN VoiceEnd(s.voices[i]) ELSE s.voices[i]]]

\* Faulty variant of allNotesOff: the block that is being output is dropped with
\* the voices
allNotesOffDropBlock(s, immediate) ==
    IF immediate
    THEN [s EXCEPT !.nb_active_voices = 0, !.blocks_offset = BlockSize]
    ELSE [s EXCEPT !.voices =
             [i \in DOMAIN s.voices |->
                 IF i <= s.nb_active_voices THEN VoiceEnd(s.voices[i]) ELSE s.voices[i]]]

\* Synthesizer::allNotesOff(bool)
allNotesOff(s, immediate) ==
    IF immediate
    THEN [s EXCEPT !.nb_active_voices = 0]
    ELSE [s EXCEPT !.voices =
             [i \in DOMAIN s.voices |->
                 IF i <= s.nb_active_voices THEN VoiceEnd(s.voices[i]) ELSE s.voices[i]]]

\* Synthesizer::allNotesOff(uint8_t, bool)
allNotesOffChannel(s, channel, immediate) ==
    [s EXCEPT !.voices =
        [i \in DOMAIN s.voices |->
            IF i <= s.nb_active_voices /\ s.voices[i].channel = channel
            THEN IF immediate THEN VoiceKill(s.voices[i]) ELSE VoiceEnd(s.voices[i])
            ELSE s.voices[i]]]

\* Synthesizer::resetAllControllers
resetAllControllers(s) ==
    [s EXCEPT !.channels = [c \in DOMAIN s.channels |-> ChannelResetControllers(s.channels[c])]]

\* Synthesizer::resetControllers
resetControllers(s, channel) ==
    IF channel >= CHANNEL_COUNT THEN s
    ELSE [s EXCEPT !.channels[channel] = ChannelResetControllers(@)]

\* Faulty variant of reset: the block that is being output is kept
resetKeepBlock(s) ==
    [s EXCEPT !.nb_active_voices = 0,
              !.channels = [c \in DOMAIN s.channels |-> ChannelReset(s.channels[c])],
              !.nb_rendered_samples = 0]

\* Synthesizer::reset
reset(s) ==
    [s EXCEPT !.nb_active_voices = 0,
              !.channels = [c \in DOMAIN s.channels |-> ChannelReset(s.channels[c])],
              !.blocks_offset = BlockSize,
              !.nb_rendered_samples = 0]

\* Synthesizer::setMasterVolume, the volume being given as decibels_to_linear(volume)
setMasterVolume(s, linear) == [s EXCEPT !.master_volume = linear]

\* Faulty variant of configureChannel: the preset is not looked up in the file
configureChannelAny(s, channel, bank, preset) ==
    IF channel >= CHANNEL_COUNT THEN [s |-> s, result |-> FALSE]
    ELSE [s |-> [s EXCEPT !.channels[channel] = setPreset(setBank(@, bank), preset)],
          result |-> TRUE]

\* Synthesizer::configureChannel: the object and the value returned
configureChannel(s, channel, bank, preset) ==
    IF channel >= CHANNEL_COUNT THEN [s |-> s, result |-> FALSE]
    ELSE IF ~getPreset(s.soundfont, bank, preset) THEN [s |-> s, result |-> FALSE]
    ELSE [s |-> [s EXCEPT !.channels[channel] = setPreset(setBank(@, bank), preset)],
          result |-> TRUE]

\* The controllers of Synthesizer::processMidiMessage that are setters of Channel
ControllerChange(c, data1, data2) ==
    CASE data1 = 0 -> setBank(c, data2)
      [] data1 = 1 -> setModulationCoarse(c, data2)
      [] data1 = 33 -> setModulationFine(c, data2)
      [] data1 = 6 -> setDataEntryCoarse(c, data2)
      [] data1 = 38 -> setDataEntryFine(c, data2)
      [] data1 = 7 -> setVolumeCoarse(c, data2)
      [] data1 = 39 -> setVolumeFine(c, data2)
      [] data1 = 10 -> setPanCoarse(c, data2)
      [] data1 = 42 -> setPanFine(c, data2)
      [] data1 = 11 -> setExpressionCoarse(c, data2)
      [] data1 = 43 -> setExpressionFine(c, data2)
      [] data1 = 64 -> setSustain(c, data2)
      [] data1 = 91 -> setReverbSend(c, data2)
      [] data1 = 93 -> setChorusSend(c, data2)
      [] data1 = 101 -> setRPNCoarse(c, data2)
      [] data1 = 100 -> setRPNFine(c, data2)
      [] OTHER -> c

\* Synthesizer::processMidiMessage: the possible outcomes [s, crashed, started, result]
processMidiMessage(s, channel, command, data1, data2) ==
    LET done(t) == {[s |-> t, crashed |-> FALSE, started |-> 0, result |-> TRUE]}
    IN  IF channel >= CHANNEL_COUNT
        THEN {[s |-> s, crashed |-> FALSE, started |-> 0, result |-> FALSE]}
        ELSE CASE command = 128 -> done(noteOff(s, channel, data1))
               [] command = 144 ->
                    {[s |-> o.s, crashed |-> o.crashed, started |-> o.started, result |-> TRUE] :
                         o \in noteOn(s, channel, data1, data2)}
               [] command = 176 ->
                    (CASE data1 = 120 -> done(allNotesOffChannel(s, channel, TRUE))
                       [] data1 = 121 -> done(resetControllers(s, channel))
                       [] data1 = 123 -> done(allNotesOffChannel(s, channel, FALSE))
                       [] OTHER -> done([s EXCEPT !.channels[channel] =
                                                      ControllerChange(@, data1, data2)]))
               [] command = 192 -> done([s EXCEPT !.channels[channel] = setPreset(@, data1)])
               [] command = 224 ->
                    done([s EXCEPT !.channels[channel] = setPitchBend(@, data1, data2)])
               [] OTHER -> done(s)

\* Synthesizer::writeBlock: what the call adds to the destination block, as
\* the sequence of its contributions (none when the gains are not audible)
writeBlock(previous_gain, current_gain, voice, source) ==
    IF Max(previous_gain, current_gain) < NON_AUDIBLE THEN <<>>
    ELSE IF current_gain = previous_gain
    THEN <<[id |-> voice.id, source |-> source, from |-> current_gain, to |-> current_gain]>>
    ELSE <<[id |-> voice.id, source |-> source, from |-> previous_gain, to |-> current_gain]>>

\* _master_volume * gain
MasterGain(s, gain) == (s.master_volume * gain) \div Scale

\* The loops of renderBlockStereo over the active voices, from index i on
RECURSIVE MixLeft(_, _)
MixLeft(s, i) ==
    IF i > s.nb_active_voices THEN <<>>
    ELSE LET voice == s.voices[i]
         IN  writeBlock(MasterGain(s, voice.left.previous_mix_gain),
                        MasterGain(s, voice.left.current_mix_gain),
                        voice, <<"left", voice.left.block>>)
             \o MixLeft(s, i + 1)

RECURSIVE MixRight(_, _)
MixRight(s, i) ==
    IF i > s.nb_active_voices THEN <<>>
    ELSE LET voice == s.voices[i]
         IN  writeBlock(MasterGain(s, voice.right.previous_mix_gain),
                        MasterGain(s, voice.right.current_mix_gain),
                        voice,
                        IF voice.stereo THEN <<"right", voice.right.block>>
                                        ELSE <<"left", voice.left.block>>)
             \o MixRight(s, i + 1)

\* The loop of renderBlockMono over the active voices, from index i on
RECURSIVE MixMono(_, _)
MixMono(s, i) ==
    IF i > s.nb_active_voices THEN <<>>
    ELSE LET voice == s.voices[i]
             left == writeBlock(MasterGain(s, voice.left.previous_mix_gain),
                                MasterGain(s, voice.left.current_mix_gain),
                                voice, <<"left", voice.left.block>>)
             right == writeBlock(MasterGain(s, voice.right.previous_mix_gain),
                                 MasterGain(s, voice.right.current_mix_gain),
                                 voice, <<"right", voice.right.block>>)
         IN  (IF voice.stereo THEN left \o right ELSE left) \o MixMono(s, i + 1)

\* _voices->process(): the object with the result p of the collection
ProcessVoices(s, p) ==
    [s EXCEPT !.voices = p.voices, !.nb_active_voices = p.nb_active_voices]

\* The mix of renderBlockStereo, the voices being processed
MixStereo(s1) == [s1 EXCEPT !.block_left = MixLeft(s1, 1), !.block_right = MixRight(s1, 1)]

\* Synthesizer::renderBlockStereo
renderBlockStereo(s) ==
    MixStereo(ProcessVoices(s, CollectionProcess(s.voices, s.nb_active_voices, s.channels)))

\* The mix of renderBlockMono, the voices being processed
MixMonoBlock(s1) == [s1 EXCEPT !.block_left = MixMono(s1, 1)]

\* Synthesizer::renderBlockMono
renderBlockMono(s) ==
    MixMonoBlock(ProcessVoices(s, CollectionProcess(s.voices, s.nb_active_voices, s.channels)))

\* The frames _block[offset .. offset + remainder - 1]
Frames(block, offset, remainder) ==
    [t \in 1..remainder |-> [mix |-> block, t |-> offset + t - 1]]

\* The loop of Synthesizer::render, nb_written frames being written: the
\* object after the call and the frames written to the buffers of the caller.
\* RenderCopy is the copy of the loop, s1 being the object with a block to read.
RECURSIVE RenderLoop(_, _, _, _, _, _)
RECURSIVE RenderCopy(_, _, _, _, _, _)
RenderCopy(s1, stereo, size, nb_written, left, right) ==
    LET remainder == Min(BlockSize - s1.blocks_offset, size - nb_written)
    IN  RenderLoop([s1 EXCEPT !.blocks_offset = @ + remainder], stereo, size,
                   nb_written + remainder,
                   left \o Frames(s1.block_left, s1.blocks_offset, remainder),
                   IF stereo
                   THEN right \o Frames(s1.block_right, s1.blocks_offset, remainder)
                   ELSE right)

RenderLoop(s, stereo, size, nb_written, left, right) ==
    IF nb_written >= size
    THEN [s |-> [s EXCEPT !.nb_rendered_samples = (@ + nb_written) % CounterModulus],
          left |-> left, right |-> right]
    ELSE RenderCopy(IF s.blocks_offset # BlockSize THEN s
                    ELSE IF stereo THEN [renderBlockStereo(s) EXCEPT !.blocks_offset = 0]
                    ELSE [renderBlockMono(s) EXCEPT !.blocks_offset = 0],
                    stereo, size, nb_written, left, right)

\* Faulty variant of render: the call starts with a new block, the frames left
\* of the block of the previous call being dropped
renderNewBlock(s, stereo, size) ==
    RenderLoop([s EXCEPT !.blocks_offset = BlockSize], stereo, size, 0, <<>>, <<>>)

\* Synthesizer::render(float*, float*, size_t) when stereo,
\* Synthesizer::render(float*, size_t) otherwise
render(s, stereo, size) == RenderLoop(s, stereo, size, 0, <<>>, <<>>)

(***************************************************************************)
(* The state machine: one Synthesizer object driven by its caller.         *)
(*   synth    the Synthesizer object                                       *)
(*   crashed  the program was ended by the dereference of a null pointer   *)
(*   cleared  the voices (objects) that were active when the collection    *)
(*            was last emptied and that no note-on started since           *)
(*   caller   the program that uses the object, which fixes the calls it   *)
(*            makes: "keys" plays two keys of one channel with the sustain *)
(*            pedal, "channels" plays two channels and silences them,      *)
(*            "files" loads files and sets the volume, "presets" selects   *)
(*            the presets of a channel                                     *)
(***************************************************************************)
VARIABLES synth, crashed, cleared, caller, unit

vars == <<synth, crashed, cleared, caller, unit>>

Callers == {"keys", "channels", "files", "presets", "pairs"}

\* loadSoundFont: is the file valid
FileInputs == IF caller = "files" THEN BOOLEAN ELSE {}

\* noteOn: [channel, key, velocity]
NoteOnInputs ==
    CASE caller = "keys" ->
           {<<0, 60, 100>>, <<0, 61, 100>>, <<0, 60, 0>>, <<CHANNEL_COUNT, 60, 100>>}
      [] OTHER -> {<<0, 60, 100>>}

\* noteOff: [channel, key]
NoteOffInputs ==
    CASE caller = "keys" -> {<<0, 60>>, <<0, 61>>, <<CHANNEL_COUNT, 60>>}
      [] caller = "channels" -> {<<0, 60>>}
      [] OTHER -> {}

\* allNotesOff(bool): immediate
AllNotesOffInputs ==
    CASE caller = "keys" -> BOOLEAN
      [] caller = "presets" -> {TRUE}
      [] OTHER -> {}

\* allNotesOff(uint8_t, bool): [channel, immediate]
AllNotesOffChannelInputs ==
    IF caller = "channels"
    THEN {<<0, TRUE>>, <<PERCUSSION_CHANNEL, TRUE>>, <<PERCUSSION_CHANNEL, FALSE>>}
    ELSE {}

\* resetControllers: channel
ResetControllersInputs == IF caller = "keys" THEN {0, CHANNEL_COUNT} ELSE {}

\* setMasterVolume: decibels_to_linear(volume)
MasterVolumeInputs == IF caller = "files" THEN {1995} ELSE {}

\* configureChannel: [channel, bank, preset]
PresetInputs ==
    CASE caller = "presets" -> {<<0, 0, 1>>, <<0, 1, 0>>, <<CHANNEL_COUNT, 0, 0>>}
      [] caller = "pairs" -> {<<0, 0, 2>>}
      [] OTHER -> {}

\* processMidiMessage: [channel, command, data1, data2]
MidiInputs ==
    CASE caller = "keys" ->
           {<<0, 176, 64, 127>>, <<0, 176, 64, 0>>, <<0, 176, 121, 0>>,
            <<CHANNEL_COUNT, 128, 60, 0>>}
      [] caller = "channels" ->
           {<<0, 176, 120, 0>>, <<0, 176, 123, 0>>, <<PERCUSSION_CHANNEL, 144, 60, 100>>,
            <<PERCUSSION_CHANNEL, 128, 60, 0>>}
      [] caller = "presets" -> {<<0, 192, 0, 0>>}
      [] OTHER -> {}

\* render: [stereo, size]
RenderInputs ==
    CASE caller = "keys" -> {<<TRUE, 2>>, <<TRUE, BlockSize>>, <<TRUE, 2 * BlockSize>>}
      [] caller = "files" -> {<<FALSE, 0>>, <<FALSE, BlockSize>>}
      [] OTHER -> {<<TRUE, BlockSize>>}

ActiveIds(s) == {s.voices[i].id : i \in 1..s.nb_active_voices}

\* No voice that keeps playing without being released outgrows the model
WithinBounds(s) ==
    \A i \in 1..s.nb_active_voices :
        s.voices[i].voice_state # VOICE_STATE_RELEASED
            => s.voices[i].voice_length <= MaxVoiceLength

\* No object is under test beside the synthesizer
NoUnit == [kind |-> "none"]

\* The object is constructed; the callers that play have loaded their file
Init ==
    /\ caller \in Callers
    /\ synth = IF caller = "files" THEN NewSynthesizer
               ELSE loadSoundFont(NewSynthesizer, TRUE)
    /\ crashed = FALSE
    /\ cleared = {}
    /\ unit = NoUnit

LoadSoundFont ==
    /\ ~crashed
    /\ \E valid \in FileInputs : synth' = loadSoundFont(synth, valid)
    /\ UNCHANGED <<crashed, cleared, caller, unit>>

NoteOn ==
    /\ ~crashed
    /\ \E n \in NoteOnInputs :
         \E o \in noteOn(synth, n[1], n[2], n[3]) :
            /\ synth' = o.s
            /\ crashed' = o.crashed
            /\ cleared' = IF o.started = 0 THEN cleared
                          ELSE cleared \ {synth.voices[o.started].id}
    /\ UNCHANGED <<caller, unit>>

NoteOff ==
    /\ ~crashed
    /\ \E n \in NoteOffInputs : synth' = noteOff(synth, n[1], n[2])
    /\ UNCHANGED <<crashed, cleared, caller, unit>>

AllNotesOff ==
    /\ ~crashed
    /\ \E immediate \in AllNotesOffInputs :
         /\ synth' = allNotesOff(synth, immediate)
         /\ cleared' = IF immediate THEN cleared \cup ActiveIds(synth) ELSE cleared
    /\ UNCHANGED <<crashed, caller, unit>>

AllNotesOffChannel ==
    /\ ~crashed
    /\ \E a \in AllNotesOffChannelInputs : synth' = allNotesOffChannel(synth, a[1], a[2])
    /\ UNCHANGED <<crashed, cleared, caller, unit>>

ResetAllControllers ==
    /\ ~crashed
    /\ caller = "keys"
    /\ synth' = resetAllControllers(synth)
    /\ UNCHANGED <<crashed, cleared, caller, unit>>

ResetControllers ==
    /\ ~crashed
    /\ \E channel \in ResetControllersInputs : synth' = resetControllers(synth, channel)
    /\ UNCHANGED <<crashed, cleared, caller, unit>>

Reset ==
    /\ ~crashed
    /\ caller = "keys"
    /\ synth' = reset(synth)
    /\ cleared' = cleared \cup ActiveIds(synth)
    /\ UNCHANGED <<crashed, caller, unit>>

SetMasterVolume ==
    /\ ~crashed
    /\ \E linear \in MasterVolumeInputs : synth' = setMasterVolume(synth, linear)
    /\ UNCHANGED <<crashed, cleared, caller, unit>>

ConfigureChannel ==
    /\ ~crashed
    /\ \E p \in PresetInputs : synth' = configureChannel(synth, p[1], p[2], p[3]).s
    /\ UNCHANGED <<crashed, cleared, caller, unit>>

ProcessMidiMessage ==
    /\ ~crashed
    /\ \E m \in MidiInputs :
         \E o \in processMidiMessage(synth, m[1], m[2], m[3], m[4]) :
            /\ synth' = o.s
            /\ crashed' = o.crashed
            /\ cleared' = IF o.started = 0 THEN cleared
                          ELSE cleared \ {synth.voices[o.started].id}
    /\ UNCHANGED <<caller, unit>>

Render ==
    /\ ~crashed
    /\ \E i \in RenderInputs : synth' = render(synth, i[1], i[2]).s
    /\ WithinBounds(synth')
    /\ UNCHANGED <<crashed, cleared, caller, unit>>

Next ==
    \/ LoadSoundFont
    \/ NoteOn
    \/ NoteOff
    \/ AllNotesOff
    \/ AllNotesOffChannel
    \/ ResetAllControllers
    \/ ResetControllers
    \/ Reset
    \/ SetMasterVolume
    \/ ConfigureChannel
    \/ ProcessMidiMessage
    \/ Render

Spec == Init /\ [][Next]_vars

(***************************************************************************)
(* The envelopes and the sampler on their own, as the tests of the         *)
(* envelopes drive them: an object is constructed with the sample rate of  *)
(* the settings, started, processed and released.  The durations of the    *)
(* shapes are in units of 1 / SampleRate seconds.                          *)
(***************************************************************************)
\* The number of samples that an envelope processes before the release
UnitSamples == 64
\* The number of calls of release between two calls of start
UnitReleases == 2

\* The sample rates passed to SynthesizerSettings::setSampleRate, which
\* accepts those from 16000 to 192000
SettingsSampleRates == {15999, 16000, 22050, 65535, 65536, 96000, 192000, 192001}

\* The sample rates of the envelopes and of the sampler that are run
UnitSampleRates == {SampleRate, 2 * SampleRate}

\* start(delay, attack, hold, decay, sustain, release): the shape of the tests
\* of the envelopes (with a fifth of its durations), a shape of null durations
\* and a shape that decays to 0
EnvelopeShapes ==
    {<<2, 4, 3, 40, 500, 20>>, <<0, 0, 0, 0, Scale, 0>>, <<1, 0, 1, 8, 0, 6>>}

\* process(nb_samples)
EnvelopeSizes == {0, BlockSize, 4 * BlockSize}

\* Sampler::start(start, end) and the pitch ratio of process, one source
\* sample being IndexScale
SamplerRanges == {<<0, 0>>, <<0, 3>>, <<8, 19>>}
SamplerRatios == {1, 3, 4, 6, 17}

\* The operations of the envelope of that kind
UnitEnvelopeNew(kind, rate) ==
    IF kind = "volume" THEN NewVolumeEnvelope(rate) ELSE NewModulationEnvelope(rate)

UnitEnvelopeStart(kind, e, shape) ==
    IF kind = "volume"
    THEN VolumeEnvelopeStart(e, shape[1], shape[2], shape[3], shape[4], shape[5], shape[6])
    ELSE ModulationEnvelopeStart(e, shape[1], shape[2], shape[3], shape[4], shape[5], shape[6])

UnitEnvelopeProcess(kind, e, nb_samples) ==
    IF kind = "volume" THEN VolumeEnvelopeProcess(e, nb_samples)
    ELSE ModulationEnvelopeProcess(e, nb_samples)

UnitEnvelopeAudible(kind, e) ==
    IF kind = "volume" THEN VolumeEnvelopeAudible(e) ELSE ModulationEnvelopeAudible(e)

UnitEnvelopeRelease(kind, e) ==
    IF kind = "volume" THEN VolumeEnvelopeRelease(e) ELSE ModulationEnvelopeRelease(e)

\* An envelope constructed for the sample rate and started with the shape.
\* op is the last call,
\* releases the number of calls of release since start, previous and
\* previous_stage the value and the stage before the last call, running the
\* value that the last call of process returned.
StartedEnvelope(kind, rate, shape) ==
    [kind |-> kind, rate |-> rate,
     envelope |-> UnitEnvelopeStart(kind, UnitEnvelopeNew(kind, rate), shape),
     op |-> "start", releases |-> 0, previous |-> 0,
     previous_stage |-> ENV_STAGE_DELAY, running |-> TRUE]

\* A sampler constructed for the sample rate and started on a sample that is
\* not looped; calls is the number of calls of process, running the value
\* that the last one returned
StartedSampler(rate, range, ratio) ==
    [kind |-> "sampler", rate |-> rate,
     sampler |-> SamplerStart(NewSampler(rate), range[1], range[2], LOOP_MODE_NONE, 0, 0),
     pitch_ratio |-> ratio, calls |-> 0, running |-> TRUE]

\* Sampler::start(start, end, loop_start, loop_end) on a sample that is looped
LoopedRanges == {<<0, 8, 2, 6>>, <<0, 4, 2, 4>>, <<8, 19, 10, 19>>}

\* A sampler constructed for the sample rate and started on a sample that is
\* looped; wrapped tells that the index was brought back from loop_end
StartedLoop(rate, range, loop_mode, ratio) ==
    [kind |-> "looped", rate |-> rate,
     sampler |-> SamplerStart(NewSampler(rate), range[1], range[2], loop_mode,
                              range[3], range[4]),
     pitch_ratio |-> ratio, wrapped |-> FALSE]

\* The data bytes of the controller messages
DataBytes == {0, 1, 64, 127}

\* The 14 bits controllers, by the number of their coarse controller: modulation,
\* volume, pan, expression; the fine one is 32 above
Controllers14 == {1, 7, 10, 11}

\* The raw field of the channel that the controller sets
ControllerField(c, controller) ==
    CASE controller = 1 -> c.modulation
      [] controller = 7 -> c.volume
      [] controller = 10 -> c.pan
      [] OTHER -> c.expression

\* A channel that receives the messages of one 14 bits controller; coarse and
\* fine are the last data bytes received (-1: none), initial the raw field of
\* the new channel
ControllerUnit(controller, percussion) ==
    [kind |-> "controller", channel |-> NewChannel(percussion), controller |-> controller,
     initial |-> ControllerField(NewChannel(percussion), controller),
     coarse |-> -1, fine |-> -1]

\* The values of the messages RPN coarse (101) and RPN fine (100)
RpnCoarseBytes == {0, 1}
RpnFineBytes == {0, 1, 2, 3, 127}

\* The data bytes of the data entry messages
EntryBytes == {0, 127}

\* A channel that receives the RPN and data entry messages; rpn_coarse and
\* rpn_fine are the last values received since the controllers were reset
\* (-1: none)
RpnUnit(percussion) ==
    [kind |-> "rpn", channel |-> NewChannel(percussion), rpn_coarse |-> -1, rpn_fine |-> -1]

\* SynthesizerSettings settings(22050); no track is constructed yet
NewSettings == [kind |-> "settings", sample_rate |-> 22050, constructed |-> FALSE]

\* SynthesizerSettings::setSampleRate: the settings and whether the call threw
setSampleRate(settings, sample_rate) ==
    IF sample_rate < 16000 \/ sample_rate > 192000
    THEN [settings |-> settings, thrown |-> TRUE]
    ELSE [settings |-> [settings EXCEPT !.sample_rate = sample_rate], thrown |-> FALSE]

\* Voice::track_t::track_t(settings): the envelopes and the sampler of a track
SettingsTrack(settings) ==
    [volume_envelope |-> NewVolumeEnvelope(settings.sample_rate),
     modulation_envelope |-> NewModulationEnvelope(settings.sample_rate),
     sampler |-> NewSampler(settings.sample_rate)]

IsEnvelope == unit.kind \in {"volume", "modulation"}

UnitInit ==
    /\ synth = NewSynthesizer
    /\ crashed = FALSE
    /\ cleared = {}
    /\ caller = "tests"
    /\ unit \in {StartedEnvelope(kind, rate, shape) :
                    kind \in {"volume", "modulation"}, rate \in UnitSampleRates,
                    shape \in EnvelopeShapes}
                \cup {StartedSampler(rate, range, ratio) :
                         rate \in {SampleRate}, range \in SamplerRanges,
                         ratio \in SamplerRatios}
                \cup {StartedLoop(rate, range, loop_mode, ratio) :
                         rate \in {SampleRate}, range \in LoopedRanges,
                         loop_mode \in {LOOP_MODE_CONTINUOUS, LOOP_MODE_UNTIL_RELEASE},
                         ratio \in SamplerRatios}
                \cup {ControllerUnit(controller, percussion) :
                         controller \in Controllers14, percussion \in BOOLEAN}
                \cup {RpnUnit(percussion) : percussion \in BOOLEAN}
                \cup {NewSettings}

\* The call envelope.process(nb_samples)
EnvelopeProcessed(nb_samples) ==
    [unit EXCEPT !.envelope = UnitEnvelopeProcess(unit.kind, @, nb_samples),
                 !.op = "process",
                 !.previous = unit.envelope.value,
                 !.previous_stage = unit.envelope.stage,
                 !.running = UnitEnvelopeAudible(unit.kind,
                                 UnitEnvelopeProcess(unit.kind, unit.envelope, nb_samples))]

\* envelope.start(...) on an envelope that was used
EnvelopeStart ==
    /\ IsEnvelope
    /\ unit.op # "start"
    /\ \E shape \in EnvelopeShapes :
          unit' = [StartedEnvelope(unit.kind, unit.rate, shape) EXCEPT
                      !.envelope = UnitEnvelopeStart(unit.kind, unit.envelope, shape)]
    /\ UNCHANGED <<synth, crashed, cleared, caller>>

\* envelope.process(nb_samples) while the key is held
EnvelopePlay ==
    /\ IsEnvelope
    /\ unit.releases = 0
    /\ unit.envelope.nb_processed_samples < UnitSamples
    /\ \E nb_samples \in EnvelopeSizes : unit' = EnvelopeProcessed(nb_samples)
    /\ UNCHANGED <<synth, crashed, cleared, caller>>

\* envelope.release()
EnvelopeRelease ==
    /\ IsEnvelope
    /\ unit.releases < UnitReleases
    /\ unit.running
    /\ unit' = [unit EXCEPT !.envelope = UnitEnvelopeRelease(unit.kind, @),
                            !.op = "release",
                            !.releases = @ + 1,
                            !.previous = unit.envelope.value,
                            !.previous_stage = unit.envelope.stage]
    /\ UNCHANGED <<synth, crashed, cleared, caller>>

\* while (envelope.process(nb_samples)) of the tests, after the release
EnvelopeLoop ==
    /\ IsEnvelope
    /\ unit.releases > 0
    /\ unit.running
    /\ unit' = EnvelopeProcessed(BlockSize)
    /\ UNCHANGED <<synth, crashed, cleared, caller>>

\* envelope.process(nb_samples) of another size after the release
EnvelopeSkip ==
    /\ IsEnvelope
    /\ unit.releases > 0
    /\ unit.running
    /\ \E nb_samples \in EnvelopeSizes \ {BlockSize} : unit' = EnvelopeProcessed(nb_samples)
    /\ UNCHANGED <<synth, crashed, cleared, caller>>

\* settings.setSampleRate(sample_rate) before a synthesizer is constructed
SetSampleRate ==
    /\ unit.kind = "settings"
    /\ \E sample_rate \in SettingsSampleRates :
          unit' = [setSampleRate(unit, sample_rate).settings EXCEPT !.constructed = FALSE]
    /\ UNCHANGED <<synth, crashed, cleared, caller>>

\* Synthesizer(settings): the tracks of its voices are constructed
ConstructTracks ==
    /\ unit.kind = "settings"
    /\ ~unit.constructed
    /\ unit' = [kind |-> "settings", sample_rate |-> unit.sample_rate,
                constructed |-> TRUE, track |-> SettingsTrack(unit)]
    /\ UNCHANGED <<synth, crashed, cleared, caller>>

\* sampler.process(dest, 1, pitch) until it returns false
SamplerRun ==
    /\ unit.kind = "sampler"
    /\ unit.running
    /\ unit' = [unit EXCEPT
                   !.sampler = SamplerProcess(@, 1, unit.pitch_ratio).sampler,
                   !.calls = @ + 1,
                   !.running = SamplerProcess(unit.sampler, 1, unit.pitch_ratio).ok]
    /\ UNCHANGED <<synth, crashed, cleared, caller>>

\* sampler.process(dest, 1, pitch) on a looped sample, as long as the sample
\* that is read is one of the sample
SamplerLoopRun ==
    /\ unit.kind = "looped"
    /\ unit.sampler.current_index \div IndexScale < unit.sampler.end
    /\ unit' = [unit EXCEPT
                   !.sampler = SamplerProcess(@, 1, unit.pitch_ratio).sampler,
                   !.wrapped = @ \/ SamplerProcess(unit.sampler, 1, unit.pitch_ratio)
                                       .sampler.current_index
                                    # unit.sampler.current_index + unit.pitch_ratio]
    /\ UNCHANGED <<synth, crashed, cleared, caller>>

\* The coarse message of the 14 bits controller (processMidiMessage, 0xB0)
ControllerCoarse ==
    /\ unit.kind = "controller"
    /\ \E value \in DataBytes :
          unit' = [unit EXCEPT !.channel = ControllerChange(@, unit.controller, value),
                               !.coarse = value]
    /\ UNCHANGED <<synth, crashed, cleared, caller>>

\* The fine message of the 14 bits controller
ControllerFine ==
    /\ unit.kind = "controller"
    /\ \E value \in DataBytes :
          unit' = [unit EXCEPT !.channel = ControllerChange(@, unit.controller + 32, value),
                               !.fine = value]
    /\ UNCHANGED <<synth, crashed, cleared, caller>>

\* The message RPN coarse (controller 101)
RpnCoarse ==
    /\ unit.kind = "rpn"
    /\ \E value \in RpnCoarseBytes :
          unit' = [unit EXCEPT !.channel = ControllerChange(@, 101, value),
                               !.rpn_coarse = value]
    /\ UNCHANGED <<synth, crashed, cleared, caller>>

\* The message RPN fine (controller 100)
RpnFine ==
    /\ unit.kind = "rpn"
    /\ \E value \in RpnFineBytes :
          unit' = [unit EXCEPT !.channel = ControllerChange(@, 100, value),
                               !.rpn_fine = value]
    /\ UNCHANGED <<synth, crashed, cleared, caller>>

\* The messages data entry coarse (controller 6) and fine (controller 38)
DataEntry ==
    /\ unit.kind = "rpn"
    /\ \E controller \in {6, 38}, value \in EntryBytes :
          unit' = [unit EXCEPT !.channel = ControllerChange(@, controller, value)]
    /\ UNCHANGED <<synth, crashed, cleared, caller>>

\* The message reset all controllers (controller 121): Channel::resetControllers
RpnReset ==
    /\ unit.kind = "rpn"
    /\ unit' = [unit EXCEPT !.channel = ChannelResetControllers(@),
                            !.rpn_coarse = -1, !.rpn_fine = -1]
    /\ UNCHANGED <<synth, crashed, cleared, caller>>

UnitNext ==
    \/ EnvelopeStart
    \/ EnvelopePlay
    \/ EnvelopeRelease
    \/ EnvelopeLoop
    \/ EnvelopeSkip
    \/ SamplerRun
    \/ SamplerLoopRun
    \/ ControllerCoarse
    \/ ControllerFine
    \/ RpnCoarse
    \/ RpnFine
    \/ DataEntry
    \/ RpnReset
    \/ SetSampleRate
    \/ ConstructTracks

UnitSpec == UnitInit /\ [][UnitNext]_vars

\* The test of an envelope: the envelope is constructed and started,
\* processed, released, then processed block by block as long as process
\* returns true
TestInit == UnitInit /\ IsEnvelope

TestNext ==
    \/ EnvelopePlay
    \/ EnvelopeRelease
    \/ EnvelopeLoop
    \/ EnvelopeSkip

TestSpec == TestInit /\ [][TestNext]_vars /\ WF_vars(EnvelopeLoop)

(***************************************************************************)
(* Properties                                                              *)
(***************************************************************************)
Active(s) == 1..s.nb_active_voices

\* The inputs over which the operations are quantified in the properties
ClaimChannels == {0, PERCUSSION_CHANNEL, CHANNEL_COUNT - 1}
ClaimKeys == {60, 61}
ClaimVelocities == {1, 127}

\* A voice object that was restarted: it is new (Playing, no block processed)
\* and still holds the mix gains of the note it played before
Restarted(v) ==
    /\ v.voice_state = VOICE_STATE_PLAYING
    /\ v.voice_length = 0
    /\ v.left.previous_mix_gain > 0

\* C1: after any sequence of operations, the number of active voices is
\* between 0 and the maximum polyphony (the size of the pool)
C1_ActiveVoicesBounded ==
    /\ synth.nb_active_voices >= 0
    /\ synth.nb_active_voices <= Len(synth.voices)
    /\ Len(synth.voices) = MaxPolyphony

\* The pool is full, of a voice that was processed and of a restarted one
C1_Witness ==
    /\ synth.nb_active_voices = MaxPolyphony
    /\ \E i \in Active(synth) : synth.voices[i].voice_length > 0
    /\ \E i \in Active(synth) : Restarted(synth.voices[i])

\* C2: for a valid channel, a key and a velocity > 0, when the lookup of the
\* preset succeeds, noteOn leaves an active voice bound to the channel and the
\* key, Playing, of length 0, whatever the occupancy of the pool: request does
\* not return null and returns a voice of the active prefix
C2_NoteOnYieldsVoice ==
    ~crashed =>
        \A c \in ClaimChannels, k \in ClaimKeys, v \in ClaimVelocities :
            NoteOnFound(synth, c) =>
                \A o \in noteOn(synth, c, k, v) :
                    /\ ~o.crashed
                    /\ o.started \in Active(o.s)
                    /\ o.s.voices[o.started].channel = c
                    /\ o.s.voices[o.started].key = k
                    /\ o.s.voices[o.started].voice_state = VOICE_STATE_PLAYING
                    /\ o.s.voices[o.started].voice_length = 0

\* The pool is full of voices that play and one of them was taken for a new note
C2_Witness ==
    /\ ~crashed
    /\ synth.nb_active_voices = MaxPolyphony
    /\ \A i \in Active(synth) : synth.voices[i].voice_state = VOICE_STATE_PLAYING
    /\ \E i \in Active(synth) : Restarted(synth.voices[i])
    /\ \E i \in Active(synth) : synth.voices[i].voice_length = MaxVoiceLength

\* C3: at most one active voice has a given channel and a given non-zero
\* exclusive class, and a noteOn whose region has that class on that channel
\* restarts that voice instead of activating another one
C3_ExclusiveClassUnique ==
    /\ \A i, j \in Active(synth) :
          (/\ synth.voices[i].exclusive_class # 0
           /\ synth.voices[i].exclusive_class = synth.voices[j].exclusive_class
           /\ synth.voices[i].channel = synth.voices[j].channel) => i = j
    /\ ~crashed =>
         \A c \in ClaimChannels, k \in ClaimKeys, v \in ClaimVelocities :
            \A i \in Active(synth) :
               (/\ NoteOnFound(synth, c)
                /\ NoteOnKeyInfo(synth, c, k, v).left.exclusive_class # 0
                /\ synth.voices[i].channel = c
                /\ synth.voices[i].exclusive_class =
                       NoteOnKeyInfo(synth, c, k, v).left.exclusive_class)
               => \A o \in noteOn(synth, c, k, v) :
                     /\ o.started = i
                     /\ o.s.nb_active_voices = synth.nb_active_voices

\* A voice of an exclusive class was restarted beside a voice of another channel
C3_Witness ==
    /\ synth.nb_active_voices = 2
    /\ \E i \in Active(synth) :
          /\ synth.voices[i].exclusive_class # 0
          /\ Restarted(synth.voices[i])

\* C4: noteOff(c, k) ends every active voice of channel c and key k, and
\* changes no other voice, no channel and not the number of active voices; a
\* voice that is not Playing is left unchanged, so that a repeated noteOff has
\* no further effect
C4_NoteOffFrame ==
    \A c \in ClaimChannels \cup {CHANNEL_COUNT}, k \in ClaimKeys :
        /\ noteOff(synth, c, k) =
              [synth EXCEPT !.voices =
                  [i \in DOMAIN synth.voices |->
                      IF /\ i \in Active(synth)
                         /\ synth.voices[i].channel = c
                         /\ synth.voices[i].key = k
                         /\ synth.voices[i].voice_state = VOICE_STATE_PLAYING
                      THEN [synth.voices[i] EXCEPT
                               !.voice_state = VOICE_STATE_RELEASE_REQUESTED]
                      ELSE synth.voices[i]]]
        /\ noteOff(noteOff(synth, c, k), c, k) = noteOff(synth, c, k)

\* Two voices of the same channel and key were ended by a noteOff
C4_Witness ==
    \E i, j \in Active(synth) :
        /\ i # j
        /\ synth.voices[i].channel = synth.voices[j].channel
        /\ synth.voices[i].key = synth.voices[j].key
        /\ synth.voices[i].voice_state = VOICE_STATE_RELEASE_REQUESTED
        /\ synth.voices[j].voice_state = VOICE_STATE_RELEASE_REQUESTED
\* A voice that Voice::process does not retire at once for its note gains
Audible(v) ==
    ~(v.left.note_gain < NON_AUDIBLE /\ (~v.stereo \/ v.right.note_gain < NON_AUDIBLE))

\* The voice is processed for one block: is it released by that block
ReleasedByBlock(s, v) ==
    /\ VoiceProcess(v, s.channels).voice.voice_state = VOICE_STATE_RELEASED
    /\ VoiceProcess(v, s.channels).voice.left.volume_envelope.stage = ENV_STAGE_RELEASE

\* The voice is processed for one block: it stays ReleaseRequested and its
\* envelopes are not released
HeldByBlock(s, v) ==
    /\ VoiceProcess(v, s.channels).voice.voice_state = VOICE_STATE_RELEASE_REQUESTED
    /\ VoiceProcess(v, s.channels).voice.left.volume_envelope.stage # ENV_STAGE_RELEASE
    /\ v.stereo =>
         VoiceProcess(v, s.channels).voice.right.volume_envelope.stage # ENV_STAGE_RELEASE

\* C5 (as amended): while the sustain switch of its channel is on, a voice that
\* received a note-off stays ReleaseRequested and its envelopes are not
\* released by the blocks rendered; when the switch is off, the voice is
\* released by the next block processed if its length has reached
\* sampleRate / 500, and stays ReleaseRequested for that block otherwise
C5_SustainHoldsUntilOffAndGrace ==
    \A i \in Active(synth) :
        (synth.voices[i].voice_state = VOICE_STATE_RELEASE_REQUESTED
            /\ Audible(synth.voices[i]))
        => IF synth.channels[synth.voices[i].channel].sustain
           THEN HeldByBlock(synth, synth.voices[i])
           ELSE IF synth.voices[i].voice_length >= SampleRate \div 500
           THEN ReleasedByBlock(synth, synth.voices[i])
           ELSE HeldByBlock(synth, synth.voices[i])

\* A voice that received a note-off was held by the sustain switch for as many
\* blocks as the model renders
C5_Witness ==
    \E i \in Active(synth) :
        /\ synth.voices[i].voice_state = VOICE_STATE_RELEASE_REQUESTED
        /\ Audible(synth.voices[i])
        /\ synth.channels[synth.voices[i].channel].sustain
        /\ synth.voices[i].voice_length = MaxVoiceLength

\* C5 (as stated): once the sustain switch of a channel is switched off, the
\* voices of the channel that received a note-off are released by the next
\* block processed
C5_ReleasedOnceSustainOff ==
    [][\A c \in 0..(CHANNEL_COUNT - 1) :
          (synth.channels[c].sustain /\ ~synth'.channels[c].sustain)
          => \A i \in Active(synth') :
                (/\ synth'.voices[i].channel = c
                 /\ synth'.voices[i].voice_state = VOICE_STATE_RELEASE_REQUESTED
                 /\ Audible(synth'.voices[i]))
                => ReleasedByBlock(synth', synth'.voices[i])]_vars
\* Every active voice has received a note-off and the sustain switch of every
\* channel is off
Draining ==
    /\ ~crashed
    /\ \A i \in Active(synth) : synth.voices[i].voice_state # VOICE_STATE_PLAYING
    /\ \A c \in 0..(CHANNEL_COUNT - 1) : ~synth.channels[c].sustain

\* C6: if every active voice has received a note-off and the sustain switch is
\* off on all channels, the calls of render, without any other call, bring the
\* number of active voices to 0: they do when they have rendered the frames of
\* DrainBlocks further blocks
C6_VoicesDrain ==
    Draining =>
        \A stereo \in BOOLEAN :
            render(synth, stereo,
                   (BlockSize - synth.blocks_offset) + DrainBlocks * BlockSize
                  ).s.nb_active_voices = 0

\* The pool is empty and holds a voice that was released and retired when its
\* volume envelope became non audible
C6_Witness ==
    /\ Draining
    /\ synth.nb_active_voices = 0
    /\ \E i \in DOMAIN synth.voices :
          /\ synth.voices[i].voice_state = VOICE_STATE_RELEASED
          /\ synth.voices[i].left.volume_envelope.stage = ENV_STAGE_RELEASE
          /\ synth.voices[i].left.volume_envelope.value <= NON_AUDIBLE
\* The number of frames that the compared calls of render write in total
SplitTotal == BlockSize + 1

\* The sizes of the first of two calls of render that write SplitTotal frames
SplitSizes == {1, BlockSize}

\* render(buf, n) followed by render(buf + n, m): the object after the calls
\* and the frames written
RenderTwice(s, stereo, n, m) ==
    LET first == render(s, stereo, n)
        second == render(first.s, stereo, m)
    IN  [s |-> second.s, left |-> first.left \o second.left,
         right |-> first.right \o second.right]

\* The splits of one call of render give what the call gives
SplitsAgree(s, stereo, whole) ==
    \A n \in SplitSizes : RenderTwice(s, stereo, n, SplitTotal - n) = whole

\* C7: render(buf, n) followed by render(buf + n, m) writes the same n + m
\* frames as render(buf, n + m) from the same state, and leaves the
\* synthesizer in the same state, for splits inside a block and at its end; a
\* call that writes no frame changes nothing
C7_RenderConcatenative ==
    \A stereo \in BOOLEAN :
        /\ render(synth, stereo, 0) = [s |-> synth, left |-> <<>>, right |-> <<>>]
        /\ SplitsAgree(synth, stereo, render(synth, stereo, SplitTotal))

\* A call of render has stopped inside a block to which voices contribute, so
\* that the splits fall inside that block and inside the next one
C7_Witness ==
    /\ synth.blocks_offset \in 1..(BlockSize - 2)
    /\ synth.nb_active_voices = MaxPolyphony
    /\ synth.block_left # <<>>
    /\ Len(render(synth, TRUE, SplitTotal).left) = SplitTotal
    /\ render(synth, TRUE, SplitTotal).s.blocks_offset \in 1..(BlockSize - 1)

\* The states that a control operation yields from the state s
ControlOutcomes(s) ==
    {o.s : o \in UNION {noteOn(s, c, k, v) :
                           c \in {0, PERCUSSION_CHANNEL}, k \in {60}, v \in {0, 127}}}
    \cup {noteOff(s, c, 60) : c \in {0, PERCUSSION_CHANNEL}}
    \cup {o.s : o \in UNION {processMidiMessage(s, 0, m[1], m[2], m[3]) :
                                m \in {<<176, 7, 0>>, <<176, 10, 127>>, <<176, 11, 0>>,
                                       <<176, 64, 127>>, <<176, 64, 0>>, <<176, 120, 0>>,
                                       <<176, 121, 0>>, <<176, 123, 0>>, <<192, 1, 0>>,
                                       <<224, 0, 96>>}}}
    \cup {allNotesOff(s, immediate) : immediate \in BOOLEAN}
    \cup {allNotesOffChannel(s, 0, immediate) : immediate \in BOOLEAN}
    \cup {setMasterVolume(s, linear) : linear \in {0, 1995}}
    \cup {configureChannel(s, 0, 0, 1).s, resetControllers(s, 0), resetAllControllers(s)}

\* The frames that are still to be output from the block of s
FramesLeft(s, stereo) ==
    [left |-> render(s, stereo, BlockSize - s.blocks_offset).left,
     right |-> render(s, stereo, BlockSize - s.blocks_offset).right]

\* The voice that noteOn starts is processed with the next block synthesized
StartedInNextBlock(s, o) ==
    (~o.crashed /\ o.started # 0)
    => \A i \in Active(render(o.s, TRUE, BlockSize - s.blocks_offset + 1).s) :
          render(o.s, TRUE, BlockSize - s.blocks_offset + 1).s.voices[i].id
              = o.s.voices[o.started].id
          => render(o.s, TRUE, BlockSize - s.blocks_offset + 1).s.voices[i].voice_length
                 = BlockSize

\* C8: a control operation issued while a block is partially consumed does not
\* change the frames still to be output from that block, and the voice of a
\* note-on starts with the next block synthesized
C8_ControlKeepsBlock ==
    (~crashed /\ synth.blocks_offset < BlockSize) =>
        /\ \A t \in ControlOutcomes(synth), stereo \in BOOLEAN :
              /\ t.blocks_offset = synth.blocks_offset
              /\ FramesLeft(t, stereo) = FramesLeft(synth, stereo)
        /\ \A c \in {0, PERCUSSION_CHANNEL} :
              \A o \in noteOn(synth, c, 60, 127) : StartedInNextBlock(synth, o)

\* A note was started while frames of a block to which a voice contributes
\* were still to be output
C8_Witness ==
    /\ ~crashed
    /\ synth.blocks_offset < BlockSize
    /\ synth.block_left # <<>>
    /\ \E i \in Active(synth) : Restarted(synth.voices[i])
\* The voices that contribute to the frames
FrameIds(frames) ==
    UNION {{frames[f].mix[c].id : c \in DOMAIN frames[f].mix} : f \in DOMAIN frames}

\* The frames of the blocks synthesized by a call of render that starts in the
\* state s, written is what the call wrote
NewFrames(s, written) ==
    SubSeq(written, BlockSize - s.blocks_offset + 1, Len(written))

\* The voices that contribute to the two blocks synthesized next from s
NextBlocksIds(s, stereo) ==
    FrameIds(NewFrames(s, render(s, stereo, 3 * BlockSize - s.blocks_offset).left))
    \cup FrameIds(NewFrames(s, render(s, stereo, 3 * BlockSize - s.blocks_offset).right))

\* C9: allNotesOff(true) leaves no active voice at once, and a voice that was
\* active before the call (and was not started again since) contributes to no
\* block synthesized after it
C9_ImmediateAllNotesOff ==
    /\ allNotesOff(synth, TRUE).nb_active_voices = 0
    /\ cleared \cap ActiveIds(synth) = {}
    /\ \A stereo \in BOOLEAN : cleared \cap NextBlocksIds(synth, stereo) = {}

\* Voices were cleared while they played, another note was started since and
\* a block was synthesized to which only that note contributes
C9_Witness ==
    /\ cleared # {}
    /\ synth.nb_active_voices > 0
    /\ synth.block_left # <<>>
    /\ NextBlocksIds(synth, TRUE) # {}
    /\ \A c \in DOMAIN synth.block_left : synth.block_left[c].id \in ActiveIds(synth)

\* The last of the frames written, none for the buffer that a call does not write
LastFrame(frames) == IF frames = <<>> THEN <<>> ELSE <<frames[Len(frames)]>>

\* The active voices of the channel
ChannelIds(s, channel) ==
    {s.voices[i].id : i \in {j \in Active(s) : s.voices[j].channel = channel}}

\* The voice object of that identity: is it active, and its state
VoiceOf(s, id) ==
    [active |-> id \in ActiveIds(s),
     voice |-> s.voices[CHOOSE i \in DOMAIN s.voices : s.voices[i].id = id]]

\* What the voices other than those of ids contribute to the frames; the order
\* in which the voices are added to a block is the order of the pool, which the
\* removal of a voice changes
OtherMix(frames, ids) ==
    [f \in DOMAIN frames |->
        [mix |-> {frames[f].mix[c] : c \in {d \in DOMAIN frames[f].mix :
                                               frames[f].mix[d].id \notin ids}},
         t |-> frames[f].t]]

\* killed is the object after the voices of ids were killed, kept is the
\* object without the kill: rendering up to the first frame of the next block,
\* the killed voices are removed without contributing and the other voices
\* play as without the kill
KilledAtNextBlock(ids, others, killed, kept) ==
    /\ ids \cap ActiveIds(killed.s) = {}
    /\ ids \cap FrameIds(LastFrame(killed.left)) = {}
    /\ ids \cap FrameIds(LastFrame(killed.right)) = {}
    /\ \A id \in others : VoiceOf(killed.s, id) = VoiceOf(kept.s, id)
    /\ OtherMix(killed.left, ids) = OtherMix(kept.left, ids)
    /\ OtherMix(killed.right, ids) = OtherMix(kept.right, ids)

\* allNotesOff(channel, true) changes only the voices of the channel, the MIDI
\* message 0x78 does the same, and the voices are removed at the next block
KillsChannel(s, channel, t) ==
    /\ processMidiMessage(s, channel, 176, 120, 0)
           = {[s |-> t, crashed |-> FALSE, started |-> 0, result |-> TRUE]}
    /\ [t EXCEPT !.voices = s.voices] = s
    /\ \A i \in DOMAIN s.voices :
          (i \notin Active(s) \/ s.voices[i].channel # channel) => t.voices[i] = s.voices[i]
    /\ \A stereo \in BOOLEAN :
          KilledAtNextBlock(ChannelIds(s, channel), ActiveIds(s) \ ChannelIds(s, channel),
                            render(t, stereo, BlockSize - s.blocks_offset + 1),
                            render(s, stereo, BlockSize - s.blocks_offset + 1))

\* C10: allNotesOff(c, true), and controller 0x78 on channel c, remove the
\* voices of channel c at the next synthesized block without them contributing
\* to it, the voices of the other channels keeping their state and playing on
C10_KillChannel ==
    /\ \A channel \in {0, PERCUSSION_CHANNEL} :
          KillsChannel(synth, channel, allNotesOffChannel(synth, channel, TRUE))
    /\ \A stereo \in BOOLEAN :
          LET next == render(synth, stereo, BlockSize - synth.blocks_offset + 1)
          IN  \A i \in Active(synth) :
                 ~Audible(synth.voices[i])
                 => /\ synth.voices[i].id \notin ActiveIds(next.s)
                    /\ synth.voices[i].id \notin FrameIds(LastFrame(next.left))
                    /\ synth.voices[i].id \notin FrameIds(LastFrame(next.right))

\* The voices of a channel were killed while a voice of another channel plays
C10_Witness ==
    \E i \in Active(synth), j \in Active(synth) :
        /\ ~Audible(synth.voices[i])
        /\ synth.voices[i].stereo
        /\ Audible(synth.voices[j])
        /\ synth.voices[j].channel # synth.voices[i].channel
        /\ synth.voices[j].voice_length > 0

\* The channel numbers that are not channels of the synthesizer
NoChannels == {CHANNEL_COUNT, CHANNEL_COUNT + 1, 255}

\* The (bank, preset) pairs given to configureChannel: the presets of the file
\* and two pairs that are in no file
ClaimPresets == DOMAIN PresetTable \cup {<<1, 0>>, <<128, 5>>}

\* C11: when no preset can be resolved for a channel (no SoundFont loaded, the
\* load failed, or none of the three lookups finds a preset), noteOn allocates no
\* voice: the object, with its voices and their count, is left as it was, so
\* that what is rendered is unchanged, and the program goes on
C11_NoPresetNoVoice ==
    ~crashed =>
        \A channel \in ClaimChannels :
            ~NoteOnFound(synth, channel) =>
                \A o \in noteOn(synth, channel, 60, 100) :
                    /\ ~o.crashed
                    /\ o.started = 0
                    /\ o.s = synth

\* C12: processMidiMessage returns false for a channel >= 16, configureChannel
\* returns false for a channel >= 16 or a (bank, preset) that is not in the
\* loaded file, and in all these cases, as for noteOn, noteOff and
\* resetControllers on a channel >= 16, no channel and no voice is modified
C12_InvalidChannelIgnored ==
    /\ \A channel \in NoChannels, command \in {128, 144, 176, 192, 224} :
           processMidiMessage(synth, channel, command, 121, 100)
               = {[s |-> synth, crashed |-> FALSE, started |-> 0, result |-> FALSE]}
    /\ \A channel \in NoChannels, p \in ClaimPresets :
           configureChannel(synth, channel, p[1], p[2]) = [s |-> synth, result |-> FALSE]
    /\ \A channel \in ClaimChannels, p \in ClaimPresets :
           ~getPreset(synth.soundfont, p[1], p[2])
               => configureChannel(synth, channel, p[1], p[2]) = [s |-> synth, result |-> FALSE]
    /\ \A channel \in NoChannels :
           /\ \A key \in ClaimKeys, velocity \in {0} \cup ClaimVelocities :
                  noteOn(synth, channel, key, velocity)
                      = {[s |-> synth, crashed |-> FALSE, started |-> 0]}
           /\ \A key \in ClaimKeys : noteOff(synth, channel, key) = synth
           /\ resetControllers(synth, channel) = synth

\* A file is loaded, a voice plays a key that the calls name, on a channel that
\* was configured and whose controllers a reset would change
C12_Witness ==
    /\ synth.soundfont # {}
    /\ \E i \in Active(synth) :
           /\ synth.voices[i].key \in ClaimKeys
           /\ synth.voices[i].voice_state = VOICE_STATE_PLAYING
    /\ \E c \in 0..(CHANNEL_COUNT - 1) :
           /\ synth.channels[c] # NewChannel(c = PERCUSSION_CHANNEL)
           /\ resetControllers(synth, c) # synth

\* C13: when configureChannel(c, bank, preset) returns true, the bank and the
\* preset stored for the channel are the values passed, for every channel 0..15,
\* the percussion channel included, so that the next noteOn of the channel
\* first looks (bank, preset) up
C13_ConfiguredPresetStored ==
    \A c \in 0..(CHANNEL_COUNT - 1), p \in ClaimPresets :
        LET r == configureChannel(synth, c, p[1], p[2])
        IN  r.result =>
                /\ r.s.channels[c].bank = p[1]
                /\ r.s.channels[c].preset = p[2]

\* The controllers of a channel as resetControllers leaves them
ControllersReset(c) ==
    /\ c.modulation = 0
    /\ c.expression = 127 * 128
    /\ c.sustain = FALSE
    /\ c.rpn = -1
    /\ c.pitch_bend = 0

\* The fields of a channel that resetControllers does not name
ChannelKept(c, d) ==
    /\ c.percussion = d.percussion
    /\ c.bank = d.bank
    /\ c.preset = d.preset
    /\ c.volume = d.volume
    /\ c.pan = d.pan
    /\ c.reverb_send = d.reverb_send
    /\ c.chorus_send = d.chorus_send
    /\ c.pitch_bend_range = d.pitch_bend_range
    /\ c.coarse_tune = d.coarse_tune
    /\ c.fine_tune = d.fine_tune

\* t is s but for the channels
OnlyChannelsChanged(s, t) == [t EXCEPT !.channels = s.channels] = s

\* MIDI messages [command, data1, data2] that set every field of a channel:
\* bank, preset, modulation, volume, pan, expression, sustain, reverb and
\* chorus sends, pitch bend range (RPN 0), coarse tune (RPN 2), pitch bend
ChannelMessages ==
    <<<<176, 0, 1>>, <<192, 5, 0>>, <<176, 1, 50>>, <<176, 33, 3>>, <<176, 7, 90>>,
      <<176, 10, 20>>, <<176, 11, 60>>, <<176, 64, 127>>, <<176, 91, 10>>,
      <<176, 93, 5>>, <<176, 101, 0>>, <<176, 100, 0>>, <<176, 6, 12>>,
      <<176, 100, 2>>, <<176, 6, 70>>, <<224, 0, 100>>>>

\* The object after processMidiMessage was called with the messages i.. of
\* ChannelMessages for the channel
RECURSIVE Controlled(_, _, _)
Controlled(s, channel, i) ==
    IF i > Len(ChannelMessages) THEN s
    ELSE LET m == ChannelMessages[i]
             o == CHOOSE o \in processMidiMessage(s, channel, m[1], m[2], m[3]) : TRUE
         IN  Controlled(o.s, channel, i + 1)

\* What resetControllers and the controller 0x79, called for each of the
\* channels, and resetAllControllers do to s
ResetControllersScope(s, channels) ==
    /\ \A c \in channels :
           LET t == resetControllers(s, c)
           IN  /\ OnlyChannelsChanged(s, t)
               /\ ControllersReset(t.channels[c])
               /\ ChannelKept(t.channels[c], s.channels[c])
               /\ \A d \in 0..(CHANNEL_COUNT - 1) :
                      d # c => t.channels[d] = s.channels[d]
               /\ processMidiMessage(s, c, 176, 121, 0)
                      = {[s |-> t, crashed |-> FALSE, started |-> 0, result |-> TRUE]}
    /\ LET t == resetAllControllers(s)
       IN  /\ OnlyChannelsChanged(s, t)
           /\ \A c \in 0..(CHANNEL_COUNT - 1) :
                  /\ ControllersReset(t.channels[c])
                  /\ ChannelKept(t.channels[c], s.channels[c])

\* C15: resetControllers, called directly, through resetAllControllers or
\* through the MIDI controller 0x79, sets modulation to 0, expression to
\* 127 * 128, sustain to false, the RPN to "unset" and the pitch bend to 0, and
\* leaves the bank, the preset, the volume, the pan, the reverb and chorus sends,
\* the pitch bend range, the tuning, the other channels and the active voices
\* unchanged
C15_ResetControllersScope ==
    /\ ResetControllersScope(synth, 0..(CHANNEL_COUNT - 1))
    /\ LET s1 == Controlled(synth, 0, 1)
       IN  /\ s1.channels[0].sustain
           /\ LET s2 == Controlled(s1, PERCUSSION_CHANNEL, 1)
              IN  /\ s2.channels[0] = s1.channels[0]
                  /\ ResetControllersScope(s2, ClaimChannels)

\* A released voice is held by the sustain pedal of its channel, and the
\* messages set every field of a channel to a value that is not its default
C15_Witness ==
    /\ \E i \in Active(synth) :
           /\ synth.channels[synth.voices[i].channel].sustain
           /\ synth.voices[i].voice_state = VOICE_STATE_RELEASE_REQUESTED
    /\ \A c \in ClaimChannels :
           LET d == Controlled(synth, c, 1).channels[c]
               n == NewChannel(c = PERCUSSION_CHANNEL)
           IN  /\ d.bank # n.bank /\ d.preset # n.preset /\ d.modulation # 0
               /\ d.volume # n.volume /\ d.pan # n.pan /\ d.expression # n.expression
               /\ d.sustain /\ d.reverb_send # n.reverb_send
               /\ d.chorus_send # n.chorus_send /\ d.rpn # -1
               /\ d.pitch_bend_range # n.pitch_bend_range
               /\ d.coarse_tune # n.coarse_tune /\ d.pitch_bend # 0

\* C16: after reset(), no voice is active, every channel holds its default
\* values (bank 128 on channel 9, bank 0 on the others), the counter of rendered
\* samples is 0 and blocks_offset is the size of a block, so that the next call
\* of render outputs no frame that was computed before the reset
C16_ResetClearsAll ==
    LET t == reset(synth)
    IN  /\ t.nb_active_voices = 0
        /\ \A c \in 0..(CHANNEL_COUNT - 1) :
               /\ t.channels[c] = NewChannel(c = PERCUSSION_CHANNEL)
               /\ t.channels[c].bank = IF c = PERCUSSION_CHANNEL THEN 128 ELSE 0
        /\ t.nb_rendered_samples = 0
        /\ t.blocks_offset = BlockSize
        /\ \A stereo \in BOOLEAN, size \in {1, BlockSize + 1} :
               LET r == render(t, stereo, size)
                   silent == [f \in 1..size |-> [mix |-> <<>>, t |-> (f - 1) % BlockSize]]
               IN  /\ r.left = silent
                   /\ r.right = IF stereo THEN silent ELSE <<>>

\* The synthesizer is reset while frames of a block to which a voice
\* contributes are still to be output, with samples counted and a channel
\* that is not in its default state
C16_Witness ==
    /\ synth.nb_active_voices > 0
    /\ synth.blocks_offset < BlockSize
    /\ synth.block_left # <<>>
    /\ synth.nb_rendered_samples # 0
    /\ \E c \in 0..(CHANNEL_COUNT - 1) : synth.channels[c] # NewChannel(c = PERCUSSION_CHANNEL)

\* C17: for every active voice, voice_length is the size of a block times the
\* number of calls of process() that returned true since its last start();
\* start() sets it to 0 and a call of process() that returns false leaves it
\* as it is
C17_VoiceLengthCountsBlocks ==
    /\ \A i \in Active(synth) :
           LET v == synth.voices[i]
               r == VoiceProcess(v, synth.channels)
           IN  /\ v.voice_length = BlockSize * v.nb_processed
               /\ r.voice.voice_length = IF r.ok THEN v.voice_length + BlockSize
                                         ELSE v.voice_length
    /\ \A channel \in ClaimChannels, key \in ClaimKeys :
           \A o \in noteOn(synth, channel, key, 100) :
               (~o.crashed /\ o.started # 0) => o.s.voices[o.started].voice_length = 0

\* A voice has been processed for two blocks and its next call of process
\* returns false, while another voice goes on; a note can start on a voice that
\* has played
C17_Witness ==
    /\ \E i \in Active(synth), j \in Active(synth) :
           /\ synth.voices[i].nb_processed >= 2
           /\ ~VoiceProcess(synth.voices[i], synth.channels).ok
           /\ VoiceProcess(synth.voices[j], synth.channels).ok
    /\ \E o \in noteOn(synth, 0, 60, 100) :
           /\ ~o.crashed
           /\ o.started # 0
           /\ synth.voices[o.started].voice_length > 0

\* The least integer that is not less than num / den
Ceil(num, den) == (num + den - 1) \div den

\* C14: for every sample rate that SynthesizerSettings accepts (16000 to
\* 192000 Hz), the sample rate stored by the VolumeEnvelope, the
\* ModulationEnvelope and the Sampler of each voice is the configured one
C14_SampleRateStored ==
    (unit.kind = "settings" /\ unit.constructed) =>
        /\ unit.track.volume_envelope.sample_rate = unit.sample_rate
        /\ unit.track.modulation_envelope.sample_rate = unit.sample_rate
        /\ unit.track.sampler.dest_sample_rate = unit.sample_rate

\* C18: for both envelopes, between two calls of start() the stage never
\* decreases, whatever the calls of process() and release(); process() moves
\* the stage only from Delay, Attack or Hold to a later stage that is not
\* Release, and only release() enters Release
C18_StageNeverDecreases ==
    IsEnvelope =>
        /\ unit.op # "start" => unit.envelope.stage >= unit.previous_stage
        /\ (unit.op = "process" /\ unit.envelope.stage # unit.previous_stage) =>
               /\ unit.previous_stage <= ENV_STAGE_HOLD
               /\ unit.envelope.stage > unit.previous_stage
               /\ unit.envelope.stage # ENV_STAGE_RELEASE
        /\ unit.op = "release" => unit.envelope.stage = ENV_STAGE_RELEASE
        /\ unit.envelope.stage = ENV_STAGE_RELEASE => unit.releases > 0

\* An envelope that starts with a delay has been processed, released twice and
\* processed again
C18_Witness ==
    /\ IsEnvelope
    /\ unit.op = "process"
    /\ unit.releases = UnitReleases
    /\ unit.envelope.stage = ENV_STAGE_RELEASE
    /\ unit.envelope.attack_start_time > 0
    /\ unit.envelope.nb_processed_samples = 4 * BlockSize

\* The envelope was released and process was called since
ProcessedAfterRelease == IsEnvelope /\ unit.releases > 0 /\ unit.op = "process"

\* C19: after release(), for both envelopes, the values of the successive
\* calls of process() never exceed the level captured at the release and
\* never increase; process() returns true exactly while the value is above
\* 0.001, and returns false after a finite number of calls, so that the loop
\* while (envelope.process(64)) of the tests ends
C19_ReleaseDecaysAndEnds ==
    /\ [](ProcessedAfterRelease =>
             /\ unit.envelope.value <= unit.envelope.release_level
             /\ unit.envelope.value <= unit.previous
             /\ unit.running = (unit.envelope.value > NON_AUDIBLE))
    /\ (IsEnvelope /\ unit.releases > 0) ~> ~unit.running

\* C20: for a sampler that does not loop and a pitch ratio above 0, the
\* repeated calls of process() of size 1 return false after at most
\* ceil((end - start) / pitch_ratio) + 1 calls
C20_SamplerEnds ==
    unit.kind = "sampler" =>
        LET bound == Ceil((unit.sampler.end - unit.sampler.start) * IndexScale,
                          unit.pitch_ratio) + 1
        IN  /\ unit.calls <= bound
            /\ unit.calls = bound => ~unit.running

\* A sampler of 11 samples played at a pitch ratio of 3/2 returned false on
\* its 9th call
C20_Witness ==
    /\ unit.kind = "sampler"
    /\ ~unit.running
    /\ unit.sampler.end - unit.sampler.start = 11
    /\ unit.pitch_ratio = 6
    /\ unit.calls = 9

\* C21: for a sampler in looping mode, after the first wrap the playback
\* index is in [start, loop_end) after every step of process(), for every pitch
\* ratio above 0 and every loop with loop_start < loop_end <= end
C21_LoopedIndexInLoop ==
    (unit.kind = "looped" /\ unit.wrapped) =>
        /\ unit.sampler.current_index >= unit.sampler.start * IndexScale
        /\ unit.sampler.current_index < unit.sampler.loop_end * IndexScale

\* What is added to the bank of a channel
BankOffset(c) == IF c = PERCUSSION_CHANNEL THEN 128 ELSE 0

\* C22: on the percussion channel (9), after reset and after every set of the
\* bank with a value b (MIDI controller 0x00 or configureChannel), the stored
\* bank is b + 128, so that it is always at least 128; on every other channel
\* the stored bank is b
C22_PercussionBankOffset ==
    /\ synth.channels[PERCUSSION_CHANNEL].bank >= 128
    /\ \A c \in 0..(CHANNEL_COUNT - 1) :
           /\ reset(synth).channels[c].bank = BankOffset(c)
           /\ \A b \in {0, 1, 127} :
                  \A o \in processMidiMessage(synth, c, 176, 0, b) :
                      o.s.channels[c].bank = b + BankOffset(c)
           /\ \A p \in ClaimPresets :
                  LET r == configureChannel(synth, c, p[1], p[2])
                  IN  r.result => r.s.channels[c].bank = p[1] + BankOffset(c)

\* C23: for each 14 bits controller (modulation, volume, pan, expression) and
\* data bytes in 0..127, the coarse setter replaces only the upper 7 bits and
\* the fine setter only the lower 7 bits, so that after a coarse c and a fine f,
\* in either order, the raw field is 128 c + f, within 0..16383
C23_CoarseFineCompose ==
    unit.kind = "controller" =>
        LET field == ControllerField(unit.channel, unit.controller)
        IN  /\ field \div 128 = IF unit.coarse = -1 THEN unit.initial \div 128 ELSE unit.coarse
            /\ field % 128 = IF unit.fine = -1 THEN unit.initial % 128 ELSE unit.fine
            /\ (unit.coarse # -1 /\ unit.fine # -1) => field = 128 * unit.coarse + unit.fine
            /\ field \in 0..16383
            /\ \A other \in Controllers14 \ {unit.controller} :
                   ControllerField(unit.channel, other)
                       = ControllerField(NewChannel(unit.channel.percussion), other)

\* The pan has received a coarse 127 and a fine 1 that differ from the bits it
\* had
C23_Witness ==
    /\ unit.kind = "controller"
    /\ unit.controller = 10
    /\ unit.coarse = 127
    /\ unit.fine = 1
    /\ unit.channel.pan = 128 * 127 + 1

\* The channel after a data entry message that sets the upper 7 bits (coarse)
\* or the lower 7 bits (fine) of the parameter that n selects
EntryWritten(c, n, coarse, value) ==
    LET bits(field) == IF coarse THEN 128 * value + (field % 128)
                       ELSE 128 * (field \div 128) + value
    IN  CASE n = 0 -> [c EXCEPT !.pitch_bend_range = bits(@)]
          [] n = 1 -> [c EXCEPT !.fine_tune = bits(@)]
          [] n = 2 /\ coarse -> [c EXCEPT !.coarse_tune = value - 64]
          [] OTHER -> c

\* C24: from any state of a channel, the RPN unset by reset or resetControllers
\* included, once RPN coarse 0 and RPN fine n have both been received, in either
\* order, a data entry message writes the selected parameter only: the pitch
\* bend range for n = 0 and the fine tune for n = 1 (coarse and fine), the
\* coarse tune = value - 64 for n = 2 (coarse only), nothing for another selector
C24_DataEntrySelected ==
    (unit.kind = "rpn" /\ unit.rpn_coarse # -1 /\ unit.rpn_fine # -1) =>
        /\ unit.channel.rpn = 128 * unit.rpn_coarse + unit.rpn_fine
        /\ \A value \in DataBytes :
               /\ ControllerChange(unit.channel, 6, value)
                      = EntryWritten(unit.channel, unit.channel.rpn, TRUE, value)
               /\ ControllerChange(unit.channel, 38, value)
                      = EntryWritten(unit.channel, unit.channel.rpn, FALSE, value)

\* After a reset of the controllers the fine tune was selected by RPN fine 1
\* then RPN coarse 0, the three parameters having been written before
C24_Witness ==
    /\ unit.kind = "rpn"
    /\ unit.rpn_coarse = 0
    /\ unit.rpn_fine = 1
    /\ unit.channel.rpn = 1
    /\ unit.channel.coarse_tune = 63
    /\ unit.channel.pitch_bend_range = 128 * 127 + 127
    /\ unit.channel.fine_tune = 127

\* Voice::process: the results of the left and of the right track of the voice
TrackResults(v, chans) ==
    LET v1 == VoiceRelease(v, chans[v.channel])
    IN  [left |-> TrackProcess(v1, chans[v.channel], v1.left),
         right |-> TrackProcess(v1, chans[v.channel], v1.right)]

\* C25: Voice::process() returns false, and the pool retires the voice in that
\* same block, whenever the volume envelope or the sampler of one of its tracks
\* returns false, for a stereo voice as soon as the left or the right track
\* does, so that a track that has ended is never mixed again
C25_EndedTrackRetiresVoice ==
    ~crashed =>
        \A i \in Active(synth) :
            LET v == synth.voices[i]
                t == TrackResults(v, synth.channels)
            IN  (Audible(v) /\ (~t.left.ok \/ (v.stereo /\ ~t.right.ok))) =>
                    /\ ~VoiceProcess(v, synth.channels).ok
                    /\ v.id \notin ActiveIds(renderBlockStereo(synth))
                    /\ v.id \notin FrameIds(render([synth EXCEPT !.blocks_offset = BlockSize],
                                                   TRUE, 1).left)

\* The pool is full and no active voice of the channel has the exclusive class
Evicting(s, channel, exclusive_class) ==
    /\ s.nb_active_voices = Len(s.voices)
    /\ \/ exclusive_class = 0
       \/ \A i \in Active(s) : ~(/\ s.voices[i].exclusive_class = exclusive_class
                                 /\ s.voices[i].channel = channel)

\* C26: when request() finds no voice of the exclusive class and no free slot, it
\* returns the voice whose priority() is the lowest of all the voices and, among
\* the voices of that priority, one of the greatest voice_length; the number of
\* active voices is left as it is
C26_EvictsLowestPriority ==
    ~crashed =>
        \A channel \in ClaimChannels, exclusive_class \in {0, 1, 2} :
            Evicting(synth, channel, exclusive_class) =>
                LET r == request(synth.voices, synth.nb_active_voices, channel, exclusive_class)
                IN  /\ r.nb_active_voices = synth.nb_active_voices
                    /\ r.index \in DOMAIN synth.voices
                    /\ \A j \in DOMAIN synth.voices :
                           /\ VoicePriority(synth.voices[r.index]) <= VoicePriority(synth.voices[j])
                           /\ VoicePriority(synth.voices[r.index]) = VoicePriority(synth.voices[j])
                                  => synth.voices[r.index].voice_length
                                         >= synth.voices[j].voice_length

\* The pool is full of voices of the same priority, and the longest one is not
\* the first
C26_Witness ==
    /\ ~crashed
    /\ synth.nb_active_voices = Len(synth.voices)
    /\ \A j \in DOMAIN synth.voices :
           VoicePriority(synth.voices[j]) = VoicePriority(synth.voices[1])
    /\ \E j \in DOMAIN synth.voices :
           synth.voices[j].voice_length > synth.voices[1].voice_length

\* The voice object of that id
VoiceById(s, id) == s.voices[CHOOSE i \in DOMAIN s.voices : s.voices[i].id = id]

\* The length that a voice must have reached to be released
ReleaseGrace == SampleRate \div 500

\* Voice::process releases the voice v
ReleaseDue(v, chans) ==
    /\ v.voice_state = VOICE_STATE_RELEASE_REQUESTED
    /\ v.voice_length >= ReleaseGrace
    /\ ~chans[v.channel].sustain

\* The samples that the voice v still plays before it can be released
GraceLeft(v) ==
    IF v.voice_length >= ReleaseGrace THEN 0
    ELSE Ceil(ReleaseGrace - v.voice_length, BlockSize) * BlockSize

\* The step from the voice v to the voice w is one of start(), of end() from
\* Playing, or of the release by process() at the first block where the voice
\* has the length required, the sustain switch being off
VoiceStateStep(v, w, chans) ==
    \/ w.voice_state = v.voice_state
    \/ /\ w.voice_state = VOICE_STATE_PLAYING
       /\ w.voice_length = 0
    \/ /\ v.voice_state = VOICE_STATE_PLAYING
       /\ w.voice_state = VOICE_STATE_RELEASE_REQUESTED
       /\ w.voice_length = v.voice_length
       /\ w.left = v.left
    \/ /\ v.voice_state = VOICE_STATE_RELEASE_REQUESTED
       /\ w.voice_state = VOICE_STATE_RELEASED
       /\ ~chans[v.channel].sustain
       /\ w.left.volume_envelope.stage = ENV_STAGE_RELEASE
       /\ w.left.volume_envelope.release_start_time
              = v.left.volume_envelope.nb_processed_samples + GraceLeft(v)
       /\ w.stereo => /\ w.right.volume_envelope.stage = ENV_STAGE_RELEASE
                      /\ w.right.volume_envelope.release_start_time
                             = w.left.volume_envelope.release_start_time

\* C27: between two calls of start() the state of a voice only moves from
\* Playing to ReleaseRequested to Released: end() is the only way out of
\* Playing, and the move to Released, which releases the envelopes and the
\* sampler once, is made by process() only, at the first block where the state
\* is ReleaseRequested, voice_length >= sampleRate / 500 and the sustain switch
\* of the channel is off, never earlier, even when the note-off follows the
\* note-on at once
C27_VoiceStateOrder ==
    /\ [](\A i \in Active(synth) :
              LET v == synth.voices[i]
                  w == VoiceProcess(v, synth.channels).voice
              IN  Audible(v) =>
                      /\ w.voice_state = IF ReleaseDue(v, synth.channels)
                                         THEN VOICE_STATE_RELEASED ELSE v.voice_state
                      /\ v.voice_state = VOICE_STATE_RELEASED =>
                             w.left.volume_envelope.release_start_time
                                 = v.left.volume_envelope.release_start_time)
    /\ [][\A id \in 1..MaxPolyphony :
              VoiceStateStep(VoiceById(synth, id), VoiceById(synth', id), synth.channels)]_vars

\* The note-off has followed the note-on at once: the voice, which has not been
\* processed, is ReleaseRequested and the sustain switch of its channel is off
C27_Witness ==
    \E i \in Active(synth) :
        /\ synth.voices[i].voice_state = VOICE_STATE_RELEASE_REQUESTED
        /\ synth.voices[i].voice_length = 0
        /\ Audible(synth.voices[i])
        /\ ~synth.channels[synth.voices[i].channel].sustain
        /\ \E j \in Active(synth) : synth.voices[j].voice_state = VOICE_STATE_RELEASED

\* The identities of the voices of the array vs, in the order of the array
VoiceIds(vs) == [i \in DOMAIN vs |-> vs[i].id]

\* C28: one call of VoiceCollection::process calls process() exactly once on
\* every voice that is in the active prefix when it starts, leaves in the prefix
\* exactly the voices that returned true, and keeps the array a permutation of
\* the same voice objects
C28_ProcessOncePermutes ==
    LET vs == synth.voices
        nb == synth.nb_active_voices
        p == CollectionProcess(vs, nb, synth.channels)
        after(id) == p.voices[CHOOSE j \in DOMAIN p.voices : p.voices[j].id = id]
    IN  /\ DOMAIN p.voices = DOMAIN vs
        /\ {p.voices[j].id : j \in DOMAIN p.voices} = {vs[j].id : j \in DOMAIN vs}
        /\ \A j, k \in DOMAIN p.voices : p.voices[j].id = p.voices[k].id => j = k
        /\ p.nb_active_voices \in 0..nb
        /\ {p.voices[j].id : j \in 1..p.nb_active_voices}
               = {vs[i].id : i \in {j \in 1..nb : VoiceProcess(vs[j], synth.channels).ok}}
        /\ \A i \in 1..nb :
               LET r == VoiceProcess(vs[i], synth.channels)
               IN  /\ after(vs[i].id) = r.voice
                   /\ after(vs[i].id).nb_processed
                          = vs[i].nb_processed + (IF r.ok THEN 1 ELSE 0)
        /\ \A i \in (nb + 1)..Len(vs) : after(vs[i].id) = vs[i]

\* The first voice of a full prefix ends in the block and the last one does not,
\* so that the voices are swapped and the voice moved to the front is processed
\* at the index of the voice removed
C28_Witness ==
    /\ synth.nb_active_voices = MaxPolyphony
    /\ ~VoiceProcess(synth.voices[1], synth.channels).ok
    /\ VoiceProcess(synth.voices[MaxPolyphony], synth.channels).ok
    /\ VoiceIds(CollectionProcess(synth.voices, synth.nb_active_voices, synth.channels).voices)
           # VoiceIds(synth.voices)

\* The priority that the lifecycle allows in that stage of the volume envelope
StagePriority(stage, priority) ==
    CASE stage = ENV_STAGE_DELAY -> priority = 3 * Scale
      [] stage = ENV_STAGE_ATTACK -> 2 * Scale < priority /\ priority <= 3 * Scale
      [] stage = ENV_STAGE_HOLD -> priority = 2 * Scale
      [] stage = ENV_STAGE_DECAY -> Scale < priority /\ priority <= 2 * Scale
      [] OTHER -> 0 <= priority /\ priority <= Scale

\* The volume envelopes of the tracks that the voice uses
VoiceEnvelopes(v) ==
    {v.left.volume_envelope} \cup (IF v.stereo THEN {v.right.volume_envelope} ELSE {})

\* The voice, which is not killed, is in one of the stages before the release
BeforeRelease(v) ==
    /\ Audible(v)
    /\ \A e \in VoiceEnvelopes(v) : e.stage # ENV_STAGE_RELEASE

\* The voice is killed, or all its envelopes are in the release
KilledOrReleased(v) ==
    \/ ~Audible(v)
    \/ \A e \in VoiceEnvelopes(v) : e.stage = ENV_STAGE_RELEASE

\* The priority of the envelope e follows the lifecycle while it is audible,
\* for n blocks more, and for "released" blocks after a release at each of them
RECURSIVE Lifecycle(_, _, _)
Lifecycle(e, n, released) ==
    /\ VolumeEnvelopeAudible(e) => StagePriority(e.stage, e.priority)
    /\ n = 0 \/ Lifecycle(VolumeEnvelopeProcess(e, BlockSize), n - 1, released)
    /\ (released = 0 /\ n > 0 /\ e.stage # ENV_STAGE_RELEASE) =>
           Lifecycle(VolumeEnvelopeProcess(VolumeEnvelopeRelease(e), BlockSize), 1, 1)

\* The shapes of the envelopes of which the lifecycle is followed, and the
\* number of blocks for which it is
LifecycleShapes ==
    {<<2 * BlockSize, 2 * BlockSize, BlockSize, 4 * BlockSize, 500, 4 * BlockSize>>,
     <<BlockSize, 3 * BlockSize, 0, 2 * BlockSize, 0, 2 * BlockSize>>}
LifecycleBlocks == 7

\* C29: the priorities follow the lifecycle: a killed voice has the priority 0, a
\* voice of which the volume envelope is in Release a priority of 1 at most, in
\* Decay a priority in (1, 2], in Hold 2, in Attack a priority in (2, 3] and in
\* Delay 3; hence, when the pool is full, request() does not evict a voice that
\* is still in Delay, Attack, Hold or Decay while a killed or released voice is
\* active
C29_PriorityFollowsLifecycle ==
    /\ \A shape \in LifecycleShapes :
           Lifecycle(VolumeEnvelopeStart(NewVolumeEnvelope(SampleRate), shape[1], shape[2],
                                         shape[3], shape[4], shape[5], shape[6]),
                     LifecycleBlocks, 0)
    /\ ~crashed =>
           /\ \A i \in Active(synth) :
                  LET v == synth.voices[i]
                  IN  /\ ~Audible(v) => VoicePriority(v) = 0
                      /\ Audible(v) =>
                             \E e \in VoiceEnvelopes(v) :
                                 /\ e.priority = VoicePriority(v)
                                 /\ StagePriority(e.stage, VoicePriority(v))
                      /\ (Audible(v) /\ KilledOrReleased(v)) => VoicePriority(v) <= Scale
                      /\ BeforeRelease(v) => VoicePriority(v) > Scale
           /\ \A channel \in ClaimChannels :
                  (/\ Evicting(synth, channel, 0)
                   /\ \E i \in Active(synth) : KilledOrReleased(synth.voices[i]))
                      => LET r == request(synth.voices, synth.nb_active_voices, channel, 0)
                         IN  /\ r.index \in Active(synth)
                             /\ KilledOrReleased(synth.voices[r.index])

\* The pool is full, its first voice is in a stage before the release and
\* another one is released and still audible: the eviction takes the latter
C29_Witness ==
    /\ ~crashed
    /\ synth.nb_active_voices = Len(synth.voices)
    /\ BeforeRelease(synth.voices[1])
    /\ \E i \in Active(synth) :
           /\ Audible(synth.voices[i])
           /\ KilledOrReleased(synth.voices[i])
           /\ VoicePriority(synth.voices[i]) > 0
           /\ request(synth.voices, synth.nb_active_voices, 0, 0).index = i

\* The mix gains of the two output channels of a voice
MixGains(v) ==
    <<v.left.previous_mix_gain, v.left.current_mix_gain,
      v.right.previous_mix_gain, v.right.current_mix_gain>>

\* The voice with nothing left of the gains of its previous use
Forgotten(v) ==
    [v EXCEPT !.left.previous_mix_gain = 0, !.left.current_mix_gain = 0,
              !.right.previous_mix_gain = 0, !.right.current_mix_gain = 0]

\* The values of the pan controller (0x0A) set before the note: hard left,
\* centre
ClaimPans == {0, 64}

\* C30: when noteOn starts or restarts a voice, nothing of the previous use of
\* the voice is left in the new note: after the first block that follows
\* start(), the previous and current mix gains of the two output channels are
\* those of the new note alone, the previous ones equal to the current ones, for
\* mono and stereo samples and for every pan, hard left and hard right included
C30_NoLeakFromPreviousUse ==
    ~crashed =>
        \A channel \in ClaimChannels, pan \in ClaimPans, key \in ClaimKeys,
           velocity \in ClaimVelocities :
            LET c == CHOOSE c \in processMidiMessage(synth, channel, 176, 10, pan) : TRUE
            IN  \A o \in noteOn(c.s, channel, key, velocity) :
                    (o.started # 0 /\ ~o.crashed) =>
                        LET v == o.s.voices[o.started]
                            r == VoiceProcess(v, o.s.channels)
                            new == VoiceProcess(Forgotten(v), o.s.channels)
                        IN  r.ok =>
                                /\ new.ok
                                /\ MixGains(r.voice) = MixGains(new.voice)
                                /\ r.voice.left.previous_mix_gain = r.voice.left.current_mix_gain
                                /\ r.voice.right.previous_mix_gain = r.voice.right.current_mix_gain

====
